---- MODULE Spec2Model ----
(***************************************************************************)
(* A model of the code-editor file backend: the path sandbox               *)
(* (tools/filesystem.py), the search/replace engine (tools/edit.py) and    *)
(* the tool handlers of server.py (file_ops, dir_ops, edit_block,          *)
(* edit_blocks).                                                           *)
(*                                                                         *)
(* Text is a sequence of one-character strings.  A path is a sequence of   *)
(* its components: <<>> is "/", <<"r","f">> is "/r/f".  A requested path   *)
(* is a record [abs, parts]: abs says whether the string starts with "/".  *)
(***************************************************************************)
EXTENDS Integers, Sequences, FiniteSets, TLC

VARIABLES
    roots,  \* AllowedRoots: the list config.get_allowed_roots() returns
    root,   \* ActiveRoot: the path config.get_root() returns
    fs,     \* the disk: path -> [kind, data, mtime]
    clock,  \* the time now, in ticks
    call,   \* the last tool call: its name, its arguments, the disk before it
    ret,    \* what the last tool call returned or raised
    cache   \* MetadataCache: cache key -> the metadata captured for the file

vars == <<roots, root, fs, clock, call, ret, cache>>

sandbox == <<roots, root>>

\* tools/config.py (not among the sources): the persisted whitelist and the
\* directory relative paths are joined to
get_allowed_roots == roots

get_root == root

----------------------------------------------------------------------------
(* Sequences *)

parent(p) == SubSeq(p, 1, Len(p) - 1)

IsPrefix(s, t) == Len(s) <= Len(t) /\ SubSeq(t, 1, Len(s)) = s

SeqsUpTo(S, n) == UNION {[1..k -> S] : k \in 0..n}

----------------------------------------------------------------------------
(* The directory tree the sandbox is exercised on.                         *)
(*   /r    a project directory       /r/o   a directory inside it          *)
(*   /o    a directory outside /r    /r/l   a symlink to /o                *)
(* Any other name is a file or a name that does not exist.                 *)

MaxPathLen == 3

Comps == {"r", "o", "l", ".."}

Dirs == {<<>>, <<"r">>, <<"r", "o">>, <<"o">>}

Files == {<<"r", "f">>, <<"r", "g">>, <<"r", "o", "f">>, <<"o", "f">>}

Nodes == Dirs \cup Files

LF == "\n"
CR == "\r"
SP == " "
BS == "\\"

NoNode == [kind |-> "none", data |-> <<>>, mtime |-> 0]

\* the tree with every file holding "a\n", everything last modified at time 0
Tree ==
    [n \in Nodes |-> IF n \in Dirs THEN [kind |-> "dir", data |-> <<>>, mtime |-> 0]
                     ELSE [kind |-> "file", data |-> <<"a", LF>>, mtime |-> 0]]

\* Path.exists / is_dir / is_file on a resolved path
exists(d, p) == p \in DOMAIN d /\ d[p].kind # "none"

is_dir(d, p) == p \in DOMAIN d /\ d[p].kind = "dir"

is_file(d, p) == p \in DOMAIN d /\ d[p].kind = "file"

NoCall == [op |-> "none"]

\* the MetadataCache with no entry
EmptyCache == [key \in {} |-> NoNode]

\* os.path.islink / os.readlink: the symlinks of the tree and their targets
IsLink(p) == p = <<"r", "l">>

LinkTarget(p) == <<"o">>

\* Path.resolve(): os.path.realpath, non-strict. Components are taken left to
\* right; ".." drops the last component of what is resolved so far (and stays
\* at "/"), a symlink is replaced by its (absolute) target, anything else,
\* existing or not, is appended.
RECURSIVE resolve_from(_, _)
resolve_from(cur, rest) ==
    IF rest = <<>> THEN cur
    ELSE LET c == Head(rest)
             new == Append(cur, c)
         IN  IF c = ".."
             THEN resolve_from(IF cur = <<>> THEN <<>> ELSE parent(cur), Tail(rest))
             ELSE IF IsLink(new)
                  THEN resolve_from(<<>>, LinkTarget(new) \o Tail(rest))
                  ELSE resolve_from(new, Tail(rest))

resolve(p) == resolve_from(<<>>, p)

\* PurePath.relative_to succeeds iff base's components are a prefix of path's
_is_relative_to(path, base) == IsPrefix(base, path)

\* str(p) == "/" : the filesystem root
_is_unrestricted(rs) == rs = <<>> \/ \E i \in 1..Len(rs) : rs[i] = <<>>

\* On POSIX Path.drive is "", so the drive-root disjunct never holds.
_is_path_allowed(path, rs) ==
    \/ _is_unrestricted(rs)
    \/ \E i \in 1..Len(rs) : _is_relative_to(path, rs[i]) \/ path = rs[i]

\* base / expanded, for a relative request
absolute_of(req, base) == IF req.abs THEN req.parts ELSE base \o req.parts

\* validate_path without the resolve() of line 88: the whitelist is asked about
\* the path as written
validate_path_unresolved(req, rs, base) ==
    LET absolute == absolute_of(req, base)
    IN  IF ~_is_path_allowed(absolute, rs)
        THEN [ok |-> FALSE, err |-> "AccessDenied", path |-> <<>>]
        ELSE [ok |-> TRUE, err |-> "", path |-> absolute]

validate_path(req, rs, base) ==
    LET absolute == resolve(absolute_of(req, base))
    IN  IF ~_is_path_allowed(absolute, rs)
        THEN [ok |-> FALSE, err |-> "AccessDenied", path |-> <<>>]
        ELSE [ok |-> TRUE, err |-> "", path |-> absolute]

----------------------------------------------------------------------------
(* set_root_path *)

RECURSIVE SelectSeq2(_, _)
SelectSeq2(s, keep) ==
    IF s = <<>> THEN <<>>
    ELSE (IF Head(s) \in keep THEN <<Head(s)>> ELSE <<>>) \o SelectSeq2(Tail(s), keep)

Range(s) == {s[i] : i \in 1..Len(s)}

\* set_root_path with every entry kept: nothing is pruned, and the candidate is
\* appended also when an entry covers it
set_root_roots_unpruned(candidate, rs) == Append(rs, candidate)

\* set_root_path with the append of line 49 left out
set_root_roots_forgetful(candidate, rs) ==
    IF \E i \in 1..Len(rs) : candidate = rs[i] \/ _is_relative_to(candidate, rs[i])
    THEN rs
    ELSE SelectSeq2(rs, {r \in Range(rs) : ~_is_relative_to(r, candidate)})

\* tools/filesystem.py set_root_path: the new AllowedRoots
set_root_roots(candidate, rs) ==
    IF \E i \in 1..Len(rs) : candidate = rs[i] \/ _is_relative_to(candidate, rs[i])
    THEN rs
    ELSE Append(SelectSeq2(rs, {r \in Range(rs) : ~_is_relative_to(r, candidate)}),
                candidate)

Requests == [abs : BOOLEAN, parts : SeqsUpTo(Comps, MaxPathLen)]

RootConfigs ==
    { <<>>, << <<>> >>, << <<"r">> >>, << <<"r", "o">> >>, << <<"o">> >>,
      << <<"r", "o">>, <<"o">> >> }

\* set_root is given absolute paths: the directories, the symlink, a file
RootRequests ==
    {[abs |-> TRUE, parts |-> p] : p \in Dirs \cup {<<"r", "l">>, <<"r", "f">>}}

InitPath ==
    /\ fs = Tree
    /\ clock = 0
    /\ roots \in RootConfigs
    /\ root \in (IF roots = <<>> THEN {<<"r">>} ELSE Range(roots))
    /\ call = NoCall
    /\ ret = NoCall
    /\ cache = EmptyCache

\* server.set_root_path -> fs_tools.set_root_path
SetRoot(req) ==
    LET candidate == resolve(req.parts)
    IN  /\ call' = [op |-> "set_root", req |-> req, roots |-> roots, root |-> root]
        /\ UNCHANGED <<fs, clock, cache>>
        /\ IF ~is_dir(fs, candidate)
           THEN /\ ret' = [ok |-> FALSE,
                           err |-> IF exists(fs, candidate) THEN "NotADirectory"
                                   ELSE "NotFound",
                           path |-> <<>>]
                /\ UNCHANGED <<roots, root>>
           ELSE /\ roots' = set_root_roots(candidate, get_allowed_roots)
                /\ root' = candidate
                /\ ret' = [ok |-> TRUE, err |-> "", path |-> candidate]

\* fs_tools.validate_path, as every handler calls it first
Validate(req) ==
    /\ call' = [op |-> "validate", req |-> req, roots |-> roots, root |-> root]
    /\ ret' = validate_path(req, get_allowed_roots, get_root)
    /\ UNCHANGED <<roots, root, fs, clock, cache>>

NextPath ==
    \/ \E req \in Requests : Validate(req)
    \/ \E req \in RootRequests : SetRoot(req)

SpecPath == InitPath /\ [][NextPath]_vars

\* AllowedRoots is non-empty and does not hold the filesystem root
Restricted == roots # <<>> /\ <<>> \notin Range(roots)

\* the requested path made absolute against ActiveRoot, ".." and symlinks resolved
Canonical(req) == resolve(absolute_of(req, root))

IsCanonical(p) ==
    /\ \A i \in 1..Len(p) : p[i] # ".."
    /\ \A i \in 1..Len(p) : ~IsLink(SubSeq(p, 1, i))

UnderSomeRoot(p) ==
    \E i \in 1..Len(roots) : Len(roots[i]) <= Len(p) /\ SubSeq(p, 1, Len(roots[i])) = roots[i]

\* C1: with a non-empty AllowedRoots that does not hold "/", validate(p) fails
\* with AccessDenied when the canonical absolute form of p is neither an allowed
\* root nor below one, and otherwise succeeds and returns that canonical path
\* (no ".." and no symlink left in it).
C1_ValidateSandbox ==
    (call.op = "validate" /\ Restricted) =>
        IF UnderSomeRoot(Canonical(call.req))
        THEN ret.ok /\ ret.path = Canonical(call.req) /\ IsCanonical(ret.path)
        ELSE ~ret.ok /\ ret.err = "AccessDenied"

\* a relative request through the symlink /r/l that leaves the only root, denied
C1_Witness ==
    /\ call.op = "validate" /\ Restricted
    /\ roots = << <<"r">> >> /\ root = <<"r">>
    /\ call.req = [abs |-> FALSE, parts |-> <<"l", "r">>]
    /\ ~ret.ok /\ ret.err = "AccessDenied"

----------------------------------------------------------------------------
(* Text: Python str operations on sequences of characters.  Positions are   *)
(* Python's: 0-based, a span [start, end) ends before end.                  *)

Min(S) == CHOOSE x \in S : \A y \in S : x <= y

Max(S) == CHOOSE x \in S : \A y \in S : x >= y

\* text[i:j]
Slice(text, i, j) == SubSeq(text, i + 1, j)

\* text.find(sub, start): the first position >= start where sub occurs, or -1
str_find(text, sub, start) ==
    LET hits == {i \in start..(Len(text) - Len(sub)) : Slice(text, i, i + Len(sub)) = sub}
    IN  IF hits = {} THEN -1 ELSE Min(hits)

\* text.count(sub): non-overlapping occurrences, left to right (sub non-empty)
RECURSIVE count_from(_, _, _)
count_from(text, sub, start) ==
    LET i == str_find(text, sub, start)
    IN  IF i < 0 THEN 0 ELSE 1 + count_from(text, sub, i + Len(sub))

str_count(text, sub) == count_from(text, sub, 0)

\* text.replace(old, new) (old non-empty)
RECURSIVE str_replace(_, _, _)
str_replace(text, old, new) ==
    LET i == str_find(text, old, 0)
    IN  IF i < 0 THEN text
        ELSE Slice(text, 0, i) \o new
             \o str_replace(Slice(text, i + Len(old), Len(text)), old, new)

Contains(text, sub) == str_find(text, sub, 0) >= 0

\* tools/edit.py detect_line_ending
detect_line_ending(content) ==
    IF Contains(content, <<CR, LF>>) THEN <<CR, LF>>
    ELSE IF Contains(content, <<CR>>) THEN <<CR>>
    ELSE <<LF>>

\* tools/edit.py normalize_line_endings
normalize_line_endings(text, target) ==
    LET normalized == str_replace(str_replace(text, <<CR, LF>>, <<LF>>), <<CR>>, <<LF>>)
    IN  IF target = <<LF>> THEN normalized
        ELSE IF target = <<CR, LF>> THEN str_replace(normalized, <<LF>>, <<CR, LF>>)
        ELSE IF target = <<CR>> THEN str_replace(normalized, <<LF>>, <<CR>>)
        ELSE normalized

\* tools/edit.py _index_to_line_col: 1-based (line, column) of a position
_index_to_line_col(text, index) ==
    LET newlines == {i \in 0..(index - 1) : text[i + 1] = LF}
        last_newline == IF newlines = {} THEN -1 ELSE Max(newlines)
    IN  [line |-> Cardinality(newlines) + 1, col |-> index - last_newline]

\* tools/edit.py _compute_edit_location
_compute_edit_location(content, start_idx, end_idx) ==
    [start_line |-> _index_to_line_col(content, start_idx).line,
     end_line |-> _index_to_line_col(content, end_idx).line,
     start_col |-> _index_to_line_col(content, start_idx).col,
     end_col |-> _index_to_line_col(content, end_idx).col]

\* open(path, "r") with the default newline=None: universal newlines, every
\* "\r\n" and "\r" of the file arrives as "\n"
read_text(data) == str_replace(str_replace(data, <<CR, LF>>, <<LF>>), <<CR>>, <<LF>>)

----------------------------------------------------------------------------
(* difflib.SequenceMatcher(None, a, b).ratio(), no junk *)

\* find_longest_match on a[alo:ahi], b[blo:bhi]: the longest common block,
\* the one starting earliest in a, then earliest in b; size 0 when none
find_longest_match(a, b, alo, ahi, blo, bhi) ==
    LET common(i, j, k) == i + k <= ahi /\ j + k <= bhi
                              /\ Slice(a, i, i + k) = Slice(b, j, j + k)
        sizes == {k \in 1..(ahi - alo) :
                    \E i \in alo..(ahi - 1), j \in blo..(bhi - 1) : common(i, j, k)}
    IN  IF sizes = {} THEN <<alo, blo, 0>>
        ELSE LET k == Max(sizes)
                 i == Min({x \in alo..(ahi - 1) : \E j \in blo..(bhi - 1) : common(x, j, k)})
                 j == Min({y \in blo..(bhi - 1) : common(i, y, k)})
             IN  <<i, j, k>>

\* the total size of get_matching_blocks()
RECURSIVE matching_size(_, _, _, _, _, _)
matching_size(a, b, alo, ahi, blo, bhi) ==
    LET m == find_longest_match(a, b, alo, ahi, blo, bhi)
    IN  IF m[3] = 0 THEN 0
        ELSE m[3]
             + (IF alo < m[1] /\ blo < m[2]
                THEN matching_size(a, b, alo, m[1], blo, m[2]) ELSE 0)
             + (IF m[1] + m[3] < ahi /\ m[2] + m[3] < bhi
                THEN matching_size(a, b, m[1] + m[3], ahi, m[2] + m[3], bhi) ELSE 0)

\* ratio() = 2.0 * matches / (len(a) + len(b)), kept as the pair num/den
ratio(a, b) ==
    [num |-> 2 * matching_size(a, b, 0, Len(a), 0, Len(b)), den |-> Len(a) + Len(b)]

\* x.num/x.den > y.num/y.den
RatioGreater(x, y) == x.num * y.den > y.num * x.den

\* tools/edit.py _best_fuzzy_match: a window of len(needle) slid over content
\* in steps of a fifth of it, the first window of the best ratio
RECURSIVE fuzzy_scan(_, _, _, _, _, _)
fuzzy_scan(content, needle, i, stop, step, best) ==
    IF i >= stop THEN best
    ELSE LET segment == Slice(content, i, IF i + Len(needle) > Len(content)
                                          THEN Len(content) ELSE i + Len(needle))
             r == ratio(needle, segment)
         IN  fuzzy_scan(content, needle, i + step, stop, step,
                        IF RatioGreater(r, best.similarity)
                        THEN [value |-> segment, similarity |-> r] ELSE best)

_best_fuzzy_match(content, needle) ==
    IF content = <<>> \/ needle = <<>> THEN [value |-> <<>>, similarity |-> [num |-> 0, den |-> 1]]
    ELSE LET window == Len(needle)
             step == IF window \div 5 < 1 THEN 1 ELSE window \div 5
             limit == Len(content) - window
         IN  fuzzy_scan(content, needle, 0, IF limit + 1 < 1 THEN 1 ELSE limit + 1, step,
                        [value |-> <<>>, similarity |-> [num |-> 0, den |-> 1]])

\* FUZZY_THRESHOLD = 0.7
FUZZY_THRESHOLD == [num |-> 7, den |-> 10]

\* similarity >= FUZZY_THRESHOLD
AtLeastThreshold(r) == ~RatioGreater(FUZZY_THRESHOLD, r)

----------------------------------------------------------------------------
(* The whitespace-insensitive strategy: the regex of                        *)
(* _build_whitespace_insensitive_pattern, re.finditer and re.subn.          *)

TAB == "\t"
BEL == "BEL"
BSP == "BSP"
NUL == "NUL"

\* str.isspace / the regex class \s, on the characters of the model
isspace(ch) == ch \in {SP, LF, CR, TAB}

\* one element per literal character, one per maximal run of whitespace (\s+)
RECURSIVE _build_whitespace_insensitive_pattern(_)
_build_whitespace_insensitive_pattern(text) ==
    IF text = <<>> THEN <<>>
    ELSE LET rest == _build_whitespace_insensitive_pattern(Tail(text))
         IN  IF isspace(Head(text))
             THEN IF rest # <<>> /\ rest[1].ws THEN rest
                  ELSE <<[ws |-> TRUE, ch |-> ""]>> \o rest
             ELSE <<[ws |-> FALSE, ch |-> Head(text)]>> \o rest

\* the length of the run of whitespace that starts at pos
RECURSIVE ws_run(_, _)
ws_run(content, pos) ==
    IF pos < Len(content) /\ isspace(content[pos + 1]) THEN 1 + ws_run(content, pos + 1)
    ELSE 0

\* where a match of pattern[k..] that starts at pos ends, or -1. \s+ is greedy
\* and is followed by a non-whitespace literal or by nothing, so it takes the
\* whole run and no shorter run can match instead.
RECURSIVE match_at(_, _, _, _)
match_at(content, pattern, k, pos) ==
    IF k > Len(pattern) THEN pos
    ELSE IF pattern[k].ws
         THEN IF ws_run(content, pos) = 0 THEN -1
              ELSE match_at(content, pattern, k + 1, pos + ws_run(content, pos))
         ELSE IF pos < Len(content) /\ content[pos + 1] = pattern[k].ch
              THEN match_at(content, pattern, k + 1, pos + 1)
              ELSE -1

\* list(re.finditer(pattern, content)): the spans <<start, end>>, leftmost
\* first, each search resuming where the last match ended
RECURSIVE finditer(_, _, _)
finditer(content, pattern, from) ==
    LET starts == {i \in from..(Len(content) - 1) : match_at(content, pattern, 1, i) >= 0}
    IN  IF starts = {} THEN <<>>
        ELSE LET i == Min(starts)
                 e == match_at(content, pattern, 1, i)
             IN  <<(<<i, e>>)>> \o finditer(content, pattern, e)

\* the replacement string of re.subn is a template: a backslash starts an
\* escape. [ok, text]: ok is FALSE where re raises re.error (bad escape,
\* invalid group reference).
RECURSIVE expand_template(_)
expand_template(repl) ==
    IF repl = <<>> THEN [ok |-> TRUE, text |-> <<>>]
    ELSE IF Head(repl) # BS
    THEN LET rest == expand_template(Tail(repl))
         IN  [ok |-> rest.ok, text |-> <<Head(repl)>> \o rest.text]
    ELSE IF Len(repl) = 1 THEN [ok |-> FALSE, text |-> <<>>]
    ELSE LET c == repl[2]
             rest == expand_template(Tail(Tail(repl)))
             known == c \in {"n", "r", "t", "a", "b", "0", BS}
             out == IF c = "n" THEN <<LF>> ELSE IF c = "r" THEN <<CR>>
                    ELSE IF c = "t" THEN <<TAB>> ELSE IF c = "a" THEN <<BEL>>
                    ELSE IF c = "b" THEN <<BSP>> ELSE IF c = "0" THEN <<NUL>>
                    ELSE IF c = BS THEN <<BS>> ELSE <<BS, c>>
             bad == c \in {"c", "d", "e", "g", "x", "y", "z", "1", "2"}
         IN  [ok |-> ~bad /\ rest.ok, text |-> out \o rest.text]

\* re.subn(pattern, repl, content, count=n) for an expanded repl: the first n
\* matches replaced
RECURSIVE subn(_, _, _, _, _)
subn(content, matches, text, n, from) ==
    IF matches = <<>> \/ n = 0 THEN Slice(content, from, Len(content))
    ELSE Slice(content, from, Head(matches)[1]) \o text
         \o subn(content, Tail(matches), text, n - 1, Head(matches)[2])

\* tools/edit.py _unescape_literal: bytes(text).decode("unicode_escape"); a
\* decoding error (a lone trailing backslash) returns the text as it was
RECURSIVE unicode_escape(_)
unicode_escape(text) ==
    IF text = <<>> THEN [ok |-> TRUE, text |-> <<>>]
    ELSE IF Head(text) # BS
    THEN LET rest == unicode_escape(Tail(text))
         IN  [ok |-> rest.ok, text |-> <<Head(text)>> \o rest.text]
    ELSE IF Len(text) = 1 THEN [ok |-> FALSE, text |-> <<>>]
    ELSE LET c == text[2]
             rest == unicode_escape(Tail(Tail(text)))
             out == IF c = "n" THEN <<LF>> ELSE IF c = "r" THEN <<CR>>
                    ELSE IF c = "t" THEN <<TAB>> ELSE IF c = "a" THEN <<BEL>>
                    ELSE IF c = "b" THEN <<BSP>> ELSE IF c = "0" THEN <<NUL>>
                    ELSE IF c = BS THEN <<BS>> ELSE <<BS, c>>
         IN  [ok |-> rest.ok /\ c # "x", text |-> out \o rest.text]

_unescape_literal(text) ==
    IF unicode_escape(text).ok THEN unicode_escape(text).text ELSE text

\* "\n".count + 1
line_count_of(text) == str_count(text, <<LF>>) + 1

----------------------------------------------------------------------------
(* The disk operations of tools/filesystem.py *)

\* an optional expected_mtime: <<>> is None, <<e>> is the number e. A number
\* is [unit, t]: the time of tick t of the clock, written either in seconds
\* (unit "s", a float like 1.7e9) or in nanoseconds (unit "ns", an int like
\* 1.7e18)
NoMtime == <<>>

\* the ticks of the clock are TickNs nanoseconds apart
TickNs == 5000000

\* write_file / move_file: abs(current - expected) > 0.01 (seconds)
MTIME_TOLERANCE_NS == 10000000

Abs(x) == IF x < 0 THEN -x ELSE x

\* write_file lines 323-324, move_file 417-418: st_mtime, in seconds, against
\* expected_mtime as it was given. A number of nanoseconds taken for seconds
\* is some 1e9 times any st_mtime.
mtime_conflict(current, expected) ==
    IF expected.unit = "ns" THEN TRUE
    ELSE Abs(current * TickNs - expected.t * TickNs) > MTIME_TOLERANCE_NS

\* no ancestor of p is a regular file
mkdir_ok(d, p) == \A i \in 0..(Len(p) - 1) : ~is_file(d, SubSeq(p, 1, i))

\* Path.mkdir(parents=True, exist_ok=True) on the directory p
RECURSIVE mkdir_parents(_, _, _)
mkdir_parents(d, p, now) ==
    IF p = <<>> \/ is_dir(d, p) THEN d
    ELSE LET up == mkdir_parents(d, parent(p), now)
         IN  [up EXCEPT ![p] = [kind |-> "dir", data |-> <<>>, mtime |-> now],
                        ![parent(p)].mtime = now]

Raise(d, err) == [fs |-> d, ok |-> FALSE, err |-> err]

Done(d) == [fs |-> d, ok |-> TRUE, err |-> ""]

\* the disk after a write that opens the file with "w" in either mode
written_over(d, path, content, mode, now) ==
    LET made == mkdir_parents(d, parent(path), now)
        touched == IF is_file(d, path) THEN made
                   ELSE [made EXCEPT ![parent(path)].mtime = now]
    IN  [touched EXCEPT ![path] = [kind |-> "file", data |-> content, mtime |-> now]]

\* the disk after open(path, "w" or "a", newline="").write(content)
written(d, path, content, mode, now) ==
    LET made == mkdir_parents(d, parent(path), now)
        old == IF mode = "append" /\ is_file(d, path) THEN d[path].data ELSE <<>>
        touched == IF is_file(d, path) THEN made
                   ELSE [made EXCEPT ![parent(path)].mtime = now]
    IN  [touched EXCEPT ![path] = [kind |-> "file", data |-> old \o content, mtime |-> now]]

\* tools/filesystem.py write_file
write_file(d, rs, base, req, content, mode, expected, now) ==
    LET v == validate_path(req, rs, base)
    IN  IF ~v.ok THEN Raise(d, v.err)
        ELSE IF expected # NoMtime /\ exists(d, v.path)
                /\ mtime_conflict(d[v.path].mtime, expected[1])
        THEN Raise(d, "Conflict")
        ELSE IF mode \notin {"rewrite", "append"} THEN Raise(d, "InvalidArgument")
        ELSE IF ~mkdir_ok(d, v.path) THEN Raise(d, "NotADirectory")
        ELSE IF is_dir(d, v.path) THEN Raise(d, "IsADirectory")
        ELSE Done(written(d, v.path, content, mode, now))

\* tools/filesystem.py _is_binary_file: a NUL among the first bytes
_is_binary_file(data) == \E i \in 1..Len(data) : data[i] = NUL

----------------------------------------------------------------------------
(* The matching pipeline of tools/edit.py *)

EditFail(err, tried, content) ==
    [ok |-> FALSE, err |-> err, tried |-> tried, new_content |-> content,
     locations |-> <<>>, replacements |-> 0]

EditOk(tried, new_content, locations, n) ==
    [ok |-> TRUE, err |-> "", tried |-> tried, new_content |-> new_content,
     locations |-> locations, replacements |-> n]

\* the loop of lines 198-203: the spans of the first n occurrences
RECURSIVE exact_locations(_, _, _, _)
exact_locations(content, needle, n, search_start) ==
    IF n = 0 THEN <<>>
    ELSE LET idx == str_find(content, needle, search_start)
             end_idx == idx + Len(needle)
         IN  <<_compute_edit_location(content, idx, end_idx)>>
             \o exact_locations(content, needle, n - 1, end_idx)

\* lines 185-204: count = expected > 0
exact_replace(content, needle, replacement, expected) ==
    IF expected = 1
    THEN LET idx == str_find(content, needle, 0)
             end_idx == idx + Len(needle)
         IN  EditOk(<<"exact">>,
                    Slice(content, 0, idx) \o replacement
                        \o Slice(content, end_idx, Len(content)),
                    <<_compute_edit_location(content, idx, end_idx)>>, expected)
    ELSE EditOk(<<"exact">>, str_replace(content, needle, replacement),
                exact_locations(content, needle, expected, 0), expected)

\* max(1, m.group(0).count("\n") + 1) > match_line_count * 1.5 for some match
too_greedy(content, matches, needle) ==
    \E i \in 1..Len(matches) :
        2 * line_count_of(Slice(content, matches[i][1], matches[i][2]))
            > 3 * line_count_of(needle)

\* lines 224-274 (guarded) and 380-413 (not guarded): exact found nothing
whitespace_replace(content, needle, replacement, expected, guarded) ==
    LET pattern == _build_whitespace_insensitive_pattern(needle)
        matches == finditer(content, pattern, 0)
        tried == <<"exact", "whitespace">>
        tmpl == expand_template(replacement)
    IN  IF Len(matches) # expected THEN EditFail("MatchCountMismatch", tried, content)
        ELSE IF ~tmpl.ok THEN EditFail("BadEscape", tried, content)
        ELSE IF guarded /\ too_greedy(content, matches, needle)
        THEN EditFail("OverlyGreedyMatch", tried, content)
        ELSE EditOk(tried, subn(content, matches, tmpl.text, expected, 0),
                    [i \in 1..Len(matches) |->
                        _compute_edit_location(content, matches[i][1], matches[i][2])],
                    expected)

\* lines 276-304 and 415-429: the fuzzy search only words the failure
fuzzy_failure(content, search, tried) ==
    IF AtLeastThreshold(_best_fuzzy_match(content, search).similarity)
    THEN EditFail("CloseMatchNotExact", Append(tried, "fuzzy"), content)
    ELSE EditFail("NoMatch", Append(tried, "fuzzy"), content)

\* a pipeline whose exact strategy falls through on a wrong count
match_pipeline_fallthrough(content, search0, replace, expected, iw, ne, guarded) ==
    LET search == IF ne THEN _unescape_literal(search0) ELSE search0
        line_ending == detect_line_ending(content)
        needle == normalize_line_endings(search, line_ending)
        replacement == normalize_line_endings(replace, line_ending)
        count == str_count(content, needle)
        ws == iw /\ finditer(content, _build_whitespace_insensitive_pattern(needle), 0) # <<>>
    IN  IF count > 0 /\ count = expected
        THEN exact_replace(content, needle, replacement, expected)
        ELSE IF ws THEN whitespace_replace(content, needle, replacement, expected, guarded)
        ELSE fuzzy_failure(content, search,
                           IF iw THEN <<"exact", "whitespace">> ELSE <<"exact">>)

\* a pipeline that applies a close fuzzy match instead of failing
match_pipeline_fuzzy_write(content, search0, replace, expected, iw, ne, guarded) ==
    LET search == IF ne THEN _unescape_literal(search0) ELSE search0
        line_ending == detect_line_ending(content)
        needle == normalize_line_endings(search, line_ending)
        replacement == normalize_line_endings(replace, line_ending)
        count == str_count(content, needle)
        ws == iw /\ finditer(content, _build_whitespace_insensitive_pattern(needle), 0) # <<>>
        tried == IF iw THEN <<"exact", "whitespace">> ELSE <<"exact">>
        best == _best_fuzzy_match(content, search)
    IN  IF count > 0
        THEN IF count # expected THEN EditFail("MatchCountMismatch", <<"exact">>, content)
             ELSE exact_replace(content, needle, replacement, expected)
        ELSE IF ws THEN whitespace_replace(content, needle, replacement, expected, guarded)
        ELSE IF AtLeastThreshold(best.similarity) /\ Contains(content, best.value)
        THEN EditOk(Append(tried, "fuzzy"), str_replace(content, best.value, replacement),
                    <<>>, 1)
        ELSE fuzzy_failure(content, search, tried)

\* the strategies in order, as perform_search_replace (guarded) and
\* perform_single_edit_in_memory (not guarded) run them on the text read
match_pipeline(content, search0, replace, expected, iw, ne, guarded) ==
    LET search == IF ne THEN _unescape_literal(search0) ELSE search0
        line_ending == detect_line_ending(content)
        needle == normalize_line_endings(search, line_ending)
        replacement == normalize_line_endings(replace, line_ending)
        count == str_count(content, needle)
        ws == iw /\ finditer(content, _build_whitespace_insensitive_pattern(needle), 0) # <<>>
    IN  IF count > 0
        THEN IF count # expected THEN EditFail("MatchCountMismatch", <<"exact">>, content)
             ELSE exact_replace(content, needle, replacement, expected)
        ELSE IF ws THEN whitespace_replace(content, needle, replacement, expected, guarded)
        ELSE fuzzy_failure(content, search,
                           IF iw THEN <<"exact", "whitespace">> ELSE <<"exact">>)

\* tools/edit.py perform_single_edit_in_memory
perform_single_edit_in_memory(content, search, replace, expected, iw, ne) ==
    IF search = <<>> THEN EditFail("InvalidArgument", <<>>, content)
    ELSE match_pipeline(content, search, replace, expected, iw, ne, FALSE)

\* edit.py line 155: the default of FILE_SIZE_LIMITS["LARGE_FILE_THRESHOLD"]
LARGE_FILE_THRESHOLD == 10485760

\* tools/edit.py perform_search_replace: [fs, result]
perform_search_replace(d, rs, base, req, search, replace, expected, emt, iw, ne, now) ==
    LET v == validate_path(req, rs, base)
        content == read_text(d[v.path].data)
        r == match_pipeline(content, search, replace, expected, iw, ne, TRUE)
        w == write_file(d, rs, base, [abs |-> TRUE, parts |-> v.path], r.new_content,
                        "rewrite", emt, now)
    IN  IF search = <<>> THEN [fs |-> d, result |-> EditFail("InvalidArgument", <<>>, <<>>)]
        ELSE IF ~v.ok THEN [fs |-> d, result |-> EditFail(v.err, <<>>, <<>>)]
        ELSE IF ~exists(d, v.path) THEN [fs |-> d, result |-> EditFail("NotFound", <<>>, <<>>)]
        ELSE IF Len(d[v.path].data) > LARGE_FILE_THRESHOLD
        THEN [fs |-> d, result |-> EditFail("TooLarge", <<>>, <<>>)]
        ELSE IF is_dir(d, v.path) THEN [fs |-> d, result |-> EditFail("IsADirectory", <<>>, <<>>)]
        ELSE IF ~r.ok THEN [fs |-> d, result |-> r]
        ELSE IF ~w.ok THEN [fs |-> d, result |-> EditFail(w.err, r.tried, content)]
        ELSE [fs |-> w.fs, result |-> r]

\* str(resolved): the cache key of a file is its absolute resolved path
str_path(p) == [abs |-> TRUE, parts |-> p]

\* the metadata computed from the file as it is: the mtime of the stat, the
\* size, the NUL test of the first bytes
compute_metadata(d, p) ==
    [mtime |-> d[p].mtime, size |-> Len(d[p].data), isBinary |-> _is_binary_file(d[p].data)]

\* cache[key] = entry
cache_store(c, key, entry) ==
    [k \in DOMAIN c \cup {key} |-> IF k = key THEN entry ELSE c[k]]

\* a lookup that returns whatever entry the key has
_get_cached_file_metadata_trusting(c, d, p) ==
    IF str_path(p) \in DOMAIN c
    THEN [cache |-> c, entry |-> c[str_path(p)]]
    ELSE [cache |-> cache_store(c, str_path(p), compute_metadata(d, p)),
          entry |-> compute_metadata(d, p)]

\* fs_tools._get_cached_file_metadata(resolved, stats), get_or_compute: the
\* entry of the key when it was captured at the mtime of the stat, otherwise a
\* fresh one, stored under the key; [cache, entry]
_get_cached_file_metadata(c, d, p) ==
    IF str_path(p) \in DOMAIN c /\ c[str_path(p)].mtime = d[p].mtime
    THEN [cache |-> c, entry |-> c[str_path(p)]]
    ELSE [cache |-> cache_store(c, str_path(p), compute_metadata(d, p)),
          entry |-> compute_metadata(d, p)]

\* fs_tools._invalidate_file_cache(key): the entry under exactly this key goes
_invalidate_file_cache(c, key) == [k \in DOMAIN c \ {key} |-> c[k]]

\* lines 480-491: perform_search_replace has ended as out; when it returned,
\* _invalidate_file_cache(str(resolved)) follows
edit_block_done(c, out, key) ==
    [cache |-> IF out.result.ok THEN _invalidate_file_cache(c, key) ELSE c,
     fs |-> out.fs, result |-> out.result]

\* lines 452-491, with the file found: meta is looked up and a binary file
\* is refused
edit_block_found(looked, d, out, key) ==
    IF looked.entry.isBinary
    THEN [cache |-> looked.cache, fs |-> d, result |-> EditFail("Binary", <<>>, <<>>)]
    ELSE edit_block_done(looked.cache, out, key)

\* server.py edit_block, for a file below the large-file threshold:
\* [cache, fs, result]
edit_block(c, d, rs, base, req, search, replace, expected, emt, iw, ne, now) ==
    LET v == validate_path(req, rs, base)
    IN  IF ~v.ok THEN [cache |-> c, fs |-> d, result |-> EditFail(v.err, <<>>, <<>>)]
        ELSE IF ~exists(d, v.path)
        THEN [cache |-> c, fs |-> d, result |-> EditFail("NotFound", <<>>, <<>>)]
        ELSE edit_block_found(
                 _get_cached_file_metadata(c, d, v.path), d,
                 perform_search_replace(d, rs, base, req, search, replace, expected, emt,
                                        iw, ne, now),
                 str_path(v.path))

----------------------------------------------------------------------------
(* edit_block on one file, over every short content, search and replacement *)

MaxLen == 3

EditChars == {"a", SP, LF}

Replacements == {<<>>, <<"b">>, <<"b", SP>>, <<LF, "b", "a">>}

TheFile == [abs |-> FALSE, parts |-> <<"f">>]

FilePath == <<"r", "f">>

InitEdit ==
    /\ roots = << <<"r">> >>
    /\ root = <<"r">>
    /\ \E c \in SeqsUpTo(EditChars, MaxLen) : fs = [Tree EXCEPT ![FilePath].data = c]
    /\ clock = 0
    /\ call = NoCall
    /\ ret = NoCall
    /\ cache = EmptyCache

EditBlock(search, replace, expected, iw) ==
    LET out == edit_block(cache, fs, get_allowed_roots, get_root, TheFile, search, replace,
                          expected, NoMtime, iw, FALSE, clock)
    IN  /\ call.op = "none"
        /\ call' = [op |-> "edit_block", req |-> TheFile, search |-> search,
                    replace |-> replace, expected |-> expected, iw |-> iw, fs |-> fs]
        /\ ret' = out.result
        /\ fs' = out.fs
        /\ cache' = out.cache
        /\ UNCHANGED <<sandbox, clock>>

NextEdit ==
    \E search \in SeqsUpTo(EditChars, MaxLen) \ {<<>>}, replace \in Replacements,
       expected \in 1..2, iw \in BOOLEAN :
        EditBlock(search, replace, expected, iw)

SpecEdit == InitEdit /\ [][NextEdit]_vars

\* the text edit_block read, and the search text in the file's line endings
ReadBefore == read_text(call.fs[FilePath].data)

NeedleOf(search) == normalize_line_endings(search, detect_line_ending(ReadBefore))

ExactCount == str_count(ReadBefore, NeedleOf(call.search))

WhitespaceCount ==
    Len(finditer(ReadBefore, _build_whitespace_insensitive_pattern(NeedleOf(call.search)), 0))

\* C4: when the search text occurs literally count > 0 times and count differs
\* from expected_count, edit_block fails with MatchCountMismatch, no weaker
\* strategy is tried, and the disk is as it was.
C4_CountMismatchFails ==
    (call.op = "edit_block" /\ ExactCount > 0 /\ ExactCount # call.expected) =>
        /\ ~ret.ok
        /\ ret.err = "MatchCountMismatch"
        /\ ret.tried = <<"exact">>
        /\ fs = call.fs

\* two literal occurrences, one expected, whitespace-insensitive matching on
C4_Witness ==
    /\ call.op = "edit_block"
    /\ ExactCount = 2 /\ call.expected = 1 /\ call.iw
    /\ ret.err = "MatchCountMismatch"

\* C5: when the exact strategy finds nothing and the whitespace-insensitive
\* one is off or finds nothing either, the edit fails (CloseMatchNotExact when
\* the best similarity is at least 0.7, NoMatch otherwise), on disk and in
\* memory alike, and the content is as it was: the best fuzzy match is never
\* written.
C5_FuzzyNeverApplied ==
    (call.op = "edit_block" /\ ExactCount = 0 /\ (~call.iw \/ WhitespaceCount = 0)) =>
        LET close == AtLeastThreshold(_best_fuzzy_match(ReadBefore, call.search).similarity)
            mem == perform_single_edit_in_memory(ReadBefore, call.search, call.replace,
                                                 call.expected, call.iw, FALSE)
        IN  /\ ~ret.ok
            /\ ret.err = (IF close THEN "CloseMatchNotExact" ELSE "NoMatch")
            /\ fs = call.fs
            /\ ~mem.ok
            /\ mem.err = ret.err
            /\ mem.new_content = ReadBefore

\* a near miss with whitespace-insensitive matching on: refused, disk untouched
C5_Witness ==
    /\ call.op = "edit_block"
    /\ ExactCount = 0 /\ call.iw /\ WhitespaceCount = 0
    /\ ret.err = "CloseMatchNotExact"
    /\ fs = call.fs

\* the positions of text that _index_to_line_col maps to (line, col)
PositionsAt(text, line, col) ==
    {p \in 0..Len(text) : _index_to_line_col(text, p) = [line |-> line, col |-> col]}

\* the span of text between (start_line, start_col) and (end_line, end_col)
\* is exactly expected
SpanIs(text, loc, expected) ==
    \E s \in PositionsAt(text, loc.start_line, loc.start_col),
       e \in PositionsAt(text, loc.end_line, loc.end_col) :
        s <= e /\ Slice(text, s, e) = expected

\* C6: with expected_count = 1 and exactly one occurrence of search, edit_block
\* succeeds and the returned location, sliced from the NEW content, is exactly
\* the replacement text.
C6_LocationSlicesReplacement ==
    (call.op = "edit_block" /\ call.expected = 1 /\ ExactCount = 1) =>
        /\ ret.ok
        /\ Len(ret.locations) = 1
        /\ SpanIs(fs[FilePath].data, ret.locations[1], NeedleOf(call.replace))

----------------------------------------------------------------------------
(* server.py edit_blocks: a batch of edits under an error policy.  An edit  *)
(* is [file_path, old_string, new_string]; expected_replacements,           *)
(* ignore_whitespace and normalize_escapes are left to their defaults       *)
(* (1, False, False).                                                       *)

\* the keys of edits_by_file in insertion order: the file_path strings in the
\* order of their first occurrence
RECURSIVE edits_by_file_keys(_, _)
edits_by_file_keys(edits, seen) ==
    IF edits = <<>> THEN <<>>
    ELSE IF Head(edits).file_path \in seen
         THEN edits_by_file_keys(Tail(edits), seen)
         ELSE <<Head(edits).file_path>>
              \o edits_by_file_keys(Tail(edits), seen \cup {Head(edits).file_path})

\* edits_by_file[key]: the indices (1-based here) of the edits of one
\* file_path, in submission order
RECURSIVE file_edits(_, _, _)
file_edits(edits, key, i) ==
    IF i > Len(edits) THEN <<>>
    ELSE (IF edits[i].file_path = key THEN <<i>> ELSE <<>>) \o file_edits(edits, key, i + 1)

\* results[idx] = None
NoResult == [status |-> "none"]

\* the state of a call: the disk, results, backups (file_path, content) in
\* insertion order, the two counters, and how the call has ended so far
BatchStart(d, edits) ==
    [fs |-> d, results |-> [i \in 1..Len(edits) |-> NoResult], backups |-> <<>>,
     successful |-> 0, failed |-> 0, out |-> "run", err |-> "", invalidated |-> <<>>]

\* lines 564-568: edit.get(field, default) for the optional fields of an edit
edit_get(edit, field) ==
    IF field \in DOMAIN edit THEN edit[field]
    ELSE IF field = "expected_replacements" THEN 1
    ELSE FALSE

RECURSIVE apply_file_edits(_, _, _, _, _, _, _)

\* lines 584-618: what the loop does with the outcome r of the edit Head(idxs).
\* [b, current, stop]: stop says whether the loop ran to its end ("no"),
\* returned (fail-fast) or re-raised (rollback)
edit_outcome(r, b, key, content, current, idxs, edits, policy) ==
    IF r.ok
    THEN apply_file_edits(
             [b EXCEPT !.results[Head(idxs)] = [status |-> "success", file_path |-> key,
                                                replacements |-> r.replacements],
                       !.successful = @ + 1],
             key, content, r.new_content, Tail(idxs), edits, policy)
    ELSE IF policy = "fail-fast"
    THEN [b |-> [b EXCEPT !.results[Head(idxs)] = [status |-> "error", file_path |-> key,
                                                   error |-> r.err],
                          !.failed = @ + 1],
          current |-> current, stop |-> "return"]
    ELSE IF policy = "rollback"
    THEN [b |-> [b EXCEPT !.results[Head(idxs)] = [status |-> "error", file_path |-> key,
                                                   error |-> r.err],
                          !.failed = @ + 1, !.err = r.err],
          current |-> current, stop |-> "raise"]
    ELSE apply_file_edits(
             [b EXCEPT !.results[Head(idxs)] = [status |-> "error", file_path |-> key,
                                                error |-> r.err],
                       !.failed = @ + 1],
             key, content, current, Tail(idxs), edits, policy)

\* the loop of lines 562-618 with every edit matched against the content read
\* from disk, not against current_content
apply_file_edits_from_disk(b, key, content, current, idxs, edits, policy) ==
    IF idxs = <<>> THEN [b |-> b, current |-> current, stop |-> "no"]
    ELSE edit_outcome(
             perform_single_edit_in_memory(content, edits[Head(idxs)].old_string,
                                           edits[Head(idxs)].new_string,
                                           edit_get(edits[Head(idxs)], "expected_replacements"),
                                           edit_get(edits[Head(idxs)], "ignore_whitespace"),
                                           edit_get(edits[Head(idxs)], "normalize_escapes")),
             b, key, content, current, idxs, edits, policy)

\* the loop of lines 562-618 over the edits idxs of one file, from the buffer
\* current
apply_file_edits(b, key, content, current, idxs, edits, policy) ==
    IF idxs = <<>> THEN [b |-> b, current |-> current, stop |-> "no"]
    ELSE edit_outcome(
             perform_single_edit_in_memory(current, edits[Head(idxs)].old_string,
                                           edits[Head(idxs)].new_string,
                                           edit_get(edits[Head(idxs)], "expected_replacements"),
                                           edit_get(edits[Head(idxs)], "ignore_whitespace"),
                                           edit_get(edits[Head(idxs)], "normalize_escapes")),
             b, key, content, current, idxs, edits, policy)

\* write_file inside the try block ended as w: an exception leaves the block,
\* otherwise _invalidate_file_cache(str(resolved)) follows (lines 606, 623)
write_outcome(w, b, resolved) ==
    IF w.ok THEN [b EXCEPT !.fs = w.fs, !.invalidated = Append(@, str_path(resolved))]
    ELSE [b EXCEPT !.out = "raise", !.err = w.err]

\* a flush that writes nothing
flush_nothing(b, rs, base, key, content, current, now) == b

\* lines 604-606 and 621-623: write the file when the buffer differs from what
\* was read
flush(b, rs, base, key, content, current, now) ==
    IF current = content THEN b
    ELSE write_outcome(write_file(b.fs, rs, base, key, current, "rewrite", NoMtime, now), b,
                       validate_path(key, rs, base).path)

\* lines 608-615: the return of fail-fast, unless the flush raised
fail_fast_return(b) == IF b.out = "raise" THEN b ELSE [b EXCEPT !.out = "return"]

RECURSIVE process_files(_, _, _, _, _, _, _)

\* lines 594-623: the loop over the edits of Head(keys) ended as a
after_file_edits(a, content, keys, edits, policy, rs, base, now) ==
    IF a.stop = "raise" THEN [a.b EXCEPT !.out = "raise"]
    ELSE IF a.stop = "return"
    THEN fail_fast_return(flush(a.b, rs, base, Head(keys), content, a.current, now))
    ELSE process_files(flush(a.b, rs, base, Head(keys), content, a.current, now),
                       Tail(keys), edits, policy, rs, base, now)

\* lines 556-623: content has been read from the file of Head(keys)
edit_file(b, content, keys, edits, policy, rs, base, now) ==
    after_file_edits(
        apply_file_edits(
            IF policy = "rollback"
            THEN [b EXCEPT !.backups = Append(@, <<Head(keys), content>>)] ELSE b,
            Head(keys), content, content, file_edits(edits, Head(keys), 1), edits, policy),
        content, keys, edits, policy, rs, base, now)

\* lines 542-554: validate, stat, the size limit, the read; v is what
\* validate_path gave for Head(keys)
open_file(v, b, keys, edits, policy, rs, base, now) ==
    IF ~v.ok THEN [b EXCEPT !.out = "raise", !.err = v.err]
    ELSE IF ~exists(b.fs, v.path) THEN [b EXCEPT !.out = "raise", !.err = "NotFound"]
    ELSE IF Len(b.fs[v.path].data) > LARGE_FILE_THRESHOLD
    THEN [b EXCEPT !.out = "raise", !.err = "TooLarge"]
    ELSE IF is_dir(b.fs, v.path) THEN [b EXCEPT !.out = "raise", !.err = "IsADirectory"]
    ELSE edit_file(b, read_text(b.fs[v.path].data), keys, edits, policy, rs, base, now)

\* the body of the try block, lines 541-623, over the keys left
process_files(b, keys, edits, policy, rs, base, now) ==
    IF keys = <<>> \/ b.out # "run" THEN b
    ELSE open_file(validate_path(Head(keys), rs, base), b, keys, edits, policy, rs, base, now)

\* lines 638-643: every backup written back, in the order of the dict; an
\* exception of write_file is swallowed
RECURSIVE restore_backups(_, _, _, _, _)
restore_backups(d, backups, rs, base, now) ==
    IF backups = <<>> THEN d
    ELSE restore_backups(
             write_file(d, rs, base, Head(backups)[1], Head(backups)[2], "rewrite",
                        NoMtime, now).fs,
             Tail(backups), rs, base, now)

\* lines 638-643: the keys given to _invalidate_file_cache, one file_path
\* string for every backup that write_file wrote back
RECURSIVE restore_invalidated(_, _, _, _, _)
restore_invalidated(d, backups, rs, base, now) ==
    IF backups = <<>> THEN <<>>
    ELSE (IF write_file(d, rs, base, Head(backups)[1], Head(backups)[2], "rewrite",
                        NoMtime, now).ok
          THEN <<Head(backups)[1]>> ELSE <<>>)
         \o restore_invalidated(
                write_file(d, rs, base, Head(backups)[1], Head(backups)[2], "rewrite",
                           NoMtime, now).fs,
                Tail(backups), rs, base, now)

\* the cache after _invalidate_file_cache of every key of keys
RECURSIVE invalidate_all(_, _)
invalidate_all(c, keys) ==
    IF keys = <<>> THEN c
    ELSE invalidate_all(_invalidate_file_cache(c, Head(keys)), Tail(keys))

\* [r for r in results if r is not None], each entry with its index
RECURSIVE results_given(_, _)
results_given(results, i) ==
    IF i > Len(results) THEN <<>>
    ELSE (IF results[i] = NoResult THEN <<>>
          ELSE <<[idx |-> i, status |-> results[i].status,
                  file_path |-> results[i].file_path,
                  error |-> IF results[i].status = "error" THEN results[i].error ELSE ""]>>)
         \o results_given(results, i + 1)

\* the BatchResult of lines 608-615, 626-633 and 645-652
batch_result(b, edits, status, successful) ==
    [raised |-> FALSE, err |-> b.err, status |-> status, total_edits |-> Len(edits),
     successful_edits |-> successful, failed_edits |-> b.failed,
     results |-> results_given(b.results, 1)]

\* how the call ends once the try block has ended as b: [fs, result,
\* invalidated]; result.raised says that the call ended with an exception,
\* invalidated are the keys given to _invalidate_file_cache, in order
batch_end(b, edits, policy, rs, base, now) ==
    IF b.out = "return"
    THEN [fs |-> b.fs, result |-> batch_result(b, edits, "partial", b.successful),
          invalidated |-> b.invalidated]
    ELSE IF b.out = "run"
    THEN [fs |-> b.fs,
          result |-> batch_result(b, edits, IF b.failed = 0 THEN "success" ELSE "partial",
                                  b.successful),
          invalidated |-> b.invalidated]
    ELSE IF policy = "rollback"
    THEN [fs |-> restore_backups(b.fs, b.backups, rs, base, now),
          result |-> batch_result(b, edits, "error", 0),
          invalidated |-> b.invalidated
                          \o restore_invalidated(b.fs, b.backups, rs, base, now)]
    ELSE [fs |-> b.fs, result |-> [raised |-> TRUE, err |-> b.err],
          invalidated |-> b.invalidated]

\* server.py edit_blocks
edit_blocks(d, rs, base, edits, policy, now) ==
    IF edits = <<>> \/ policy \notin {"fail-fast", "continue", "rollback"}
    THEN [fs |-> d, result |-> [raised |-> TRUE, err |-> "InvalidArgument"],
          invalidated |-> <<>>]
    ELSE batch_end(process_files(BatchStart(d, edits), edits_by_file_keys(edits, {}), edits,
                                 policy, rs, base, now),
                   edits, policy, rs, base, now)

----------------------------------------------------------------------------
(* edit_blocks over every short batch on two files *)

MaxBatch == 3

\* "f" and "/r/f" name the same file, "m" names no file
BatchPaths ==
    { [abs |-> FALSE, parts |-> <<"f">>], [abs |-> TRUE, parts |-> <<"r", "f">>],
      [abs |-> FALSE, parts |-> <<"g">>], [abs |-> FALSE, parts |-> <<"m">>] }

BatchTexts == { <<(<<"x">>), (<<"y">>)>>, <<(<<"y">>), (<<"z">>)>>, <<(<<"y">>), (<<"x">>)>> }

BatchEdits ==
    { [file_path |-> p, old_string |-> t[1], new_string |-> t[2]] :
        p \in BatchPaths, t \in BatchTexts }

Policies == {"fail-fast", "continue", "rollback"}

GPath == <<"r", "g">>

InitBatch ==
    /\ roots = << <<"r">> >>
    /\ root = <<"r">>
    /\ \E c \in { <<"x">>, <<"y">>, <<"x", CR, LF>> } :
          fs = [Tree EXCEPT ![FilePath].data = c, ![GPath].data = <<"x">>]
    /\ clock = 1
    /\ call = NoCall
    /\ ret = NoCall
    /\ cache = EmptyCache

\* get_or_compute for the file p, as line 452 of edit_block calls it after the
\* stat: ret keeps the mtime of the stat, the cache before and after, what a
\* fresh computation gives and the entry returned
GetOrCompute(p) ==
    /\ call.op = "none"
    /\ is_file(fs, p)
    /\ ret' = [op |-> "get_or_compute", key |-> str_path(p), seen |-> fs[p].mtime,
               fresh |-> compute_metadata(fs, p), before |-> cache,
               entry |-> _get_cached_file_metadata(cache, fs, p).entry,
               after |-> _get_cached_file_metadata(cache, fs, p).cache]
    /\ cache' = _get_cached_file_metadata(cache, fs, p).cache
    /\ UNCHANGED <<sandbox, fs, clock, call>>

EditBlocks(edits, policy) ==
    LET out == edit_blocks(fs, get_allowed_roots, get_root, edits, policy, clock)
    IN  /\ call.op = "none"
        /\ call' = [op |-> "edit_blocks", edits |-> edits, policy |-> policy, fs |-> fs,
                    cache |-> cache]
        /\ ret' = out.result
        /\ fs' = out.fs
        /\ cache' = invalidate_all(cache, out.invalidated)
        /\ UNCHANGED <<sandbox, clock>>

NextBatch ==
    \/ GetOrCompute(FilePath)
    \/ \E edits \in SeqsUpTo(BatchEdits, MaxBatch) \ {<<>>}, policy \in Policies :
          EditBlocks(edits, policy)

SpecBatch == InitBatch /\ [][NextBatch]_vars

\* the file an edit names
FileOf(e) == resolve(absolute_of(e.file_path, root))

\* no two file_path strings of the batch name the same file
NoAlias(edits) ==
    \A i, j \in 1..Len(edits) :
        FileOf(edits[i]) = FileOf(edits[j]) => edits[i].file_path = edits[j].file_path

\* an edit with expected count 1 applies to a buffer when its search text
\* occurs in it exactly once, and then replaces that occurrence
Applies(buf, e) == str_count(buf, e.old_string) = 1

Apply(buf, e) == IF Applies(buf, e) THEN str_replace(buf, e.old_string, e.new_string) ELSE buf

\* the buffer of file_path key after the edits 1..n that name it, from the
\* text read from disk d
RECURSIVE KeyBuffer(_, _, _, _)
KeyBuffer(d, edits, n, key) ==
    IF n = 0 THEN read_text(d[resolve(absolute_of(key, root))].data)
    ELSE LET prev == KeyBuffer(d, edits, n - 1, key)
         IN  IF edits[n].file_path = key THEN Apply(prev, edits[n]) ELSE prev

\* what a file holds once a buffer has been flushed: a buffer equal to the
\* text read is not written
Flushed(d, F, buf) == IF buf = read_text(d[F].data) THEN d[F].data ELSE buf

HasResult(i) == \E n \in 1..Len(ret.results) : ret.results[n].idx = i

\* C7: within one batch the edits that share a file path are applied in
\* submission order, each matched against the buffer left by the earlier
\* successful edits of that path and not against the disk content; when the
\* batch is not rolled back the file ends as the buffer of its last processed
\* edit (x->y then y->z on "x" gives "z").
C7_SameFileSequential ==
    (call.op = "edit_blocks" /\ ~ret.raised /\ NoAlias(call.edits)) =>
        \A n \in 1..Len(ret.results) :
            LET i == ret.results[n].idx
                key == call.edits[i].file_path
                last == Max({j \in 1..Len(call.edits) :
                                HasResult(j) /\ call.edits[j].file_path = key})
            IN  /\ (ret.results[n].status = "success")
                       <=> Applies(KeyBuffer(call.fs, call.edits, i - 1, key), call.edits[i])
                /\ ret.status # "error" =>
                       fs[FileOf(call.edits[i])].data
                           = Flushed(call.fs, FileOf(call.edits[i]),
                                     KeyBuffer(call.fs, call.edits, last, key))

\* x->y then y->z on a file holding "x", an edit of another file in between
C7_Witness ==
    /\ call.op = "edit_blocks" /\ call.policy = "fail-fast"
    /\ call.edits = << [file_path |-> TheFile, old_string |-> <<"x">>, new_string |-> <<"y">>],
                       [file_path |-> [abs |-> FALSE, parts |-> <<"g">>],
                        old_string |-> <<"x">>, new_string |-> <<"y">>],
                       [file_path |-> TheFile, old_string |-> <<"y">>, new_string |-> <<"z">>] >>
    /\ call.fs[FilePath].data = <<"x">>
    /\ ret.status = "success"
    /\ fs[FilePath].data = <<"z">>

\* the order edits are processed in: by the first use of their file_path, then
\* by index
FirstUse(edits, i) == Min({j \in 1..Len(edits) : edits[j].file_path = edits[i].file_path})

Earlier(edits, i, j) ==
    \/ FirstUse(edits, i) < FirstUse(edits, j)
    \/ FirstUse(edits, i) = FirstUse(edits, j) /\ i < j

ProcessingOrder(edits) ==
    [p \in 1..Len(edits) |->
        CHOOSE i \in 1..Len(edits) :
            Cardinality({j \in 1..Len(edits) : Earlier(edits, j, i)}) = p - 1]

\* the buffer of file F after the first n edits in processing order
RECURSIVE BufferAt(_, _, _, _)
BufferAt(d, edits, F, n) ==
    IF n = 0 THEN read_text(d[F].data)
    ELSE LET e == edits[ProcessingOrder(edits)[n]]
             prev == BufferAt(d, edits, F, n - 1)
         IN  IF FileOf(e) = F THEN Apply(prev, e) ELSE prev

\* the edit at position p of the processing order names a file that exists
Readable(d, edits, p) == exists(d, FileOf(edits[ProcessingOrder(edits)[p]]))

\* the edit at position p does not apply to the buffer its file has by then
Fails(d, edits, p) ==
    LET e == edits[ProcessingOrder(edits)[p]]
    IN  ~Applies(BufferAt(d, edits, FileOf(e), p - 1), e)

\* p is the position of the first failing edit, every file up to it exists
FirstFailure(d, edits, p) ==
    /\ \A q \in 1..p : Readable(d, edits, q)
    /\ Fails(d, edits, p)
    /\ \A q \in 1..(p - 1) : ~Fails(d, edits, q)

\* the files the batches are run on
BatchFiles == {FilePath, GPath}

\* file F holds the text buf after the call: read back it is buf, and, when no
\* file is named by two path strings, it is byte for byte what one flush of
\* buf leaves
HoldsBuffer(F, buf) ==
    /\ read_text(fs[F].data) = buf
    /\ NoAlias(call.edits) => fs[F].data = Flushed(call.fs, F, buf)

\* C9: under fail-fast, when an edit fails to match, processing stops there:
\* the status is partial, the results are those of the edits up to and
\* including the failing one (one error, the rest successes), the file being
\* processed holds the effect of its edits that succeeded before the failure,
\* and no later edit is applied to any file.
C9_FailFastStops ==
    (call.op = "edit_blocks" /\ call.policy = "fail-fast") =>
        \A p \in 1..Len(call.edits) :
            FirstFailure(call.fs, call.edits, p) =>
                LET order == ProcessingOrder(call.edits)
                IN  /\ ~ret.raised
                    /\ ret.status = "partial"
                    /\ {ret.results[n].idx : n \in 1..Len(ret.results)}
                           = {order[q] : q \in 1..p}
                    /\ \A n \in 1..Len(ret.results) :
                           ret.results[n].status
                               = (IF ret.results[n].idx = order[p] THEN "error" ELSE "success")
                    /\ ret.successful_edits = p - 1
                    /\ ret.failed_edits = 1
                    /\ \A F \in BatchFiles : HoldsBuffer(F, BufferAt(call.fs, call.edits, F, p))

\* f: x->y succeeds, x->y again fails; the edit of g is never reached
C9_Witness ==
    /\ call.op = "edit_blocks" /\ call.policy = "fail-fast"
    /\ call.edits = << [file_path |-> TheFile, old_string |-> <<"x">>, new_string |-> <<"y">>],
                       [file_path |-> TheFile, old_string |-> <<"x">>, new_string |-> <<"y">>],
                       [file_path |-> [abs |-> FALSE, parts |-> <<"g">>],
                        old_string |-> <<"x">>, new_string |-> <<"y">>] >>
    /\ call.fs[FilePath].data = <<"x">>
    /\ ret.status = "partial"
    /\ Len(ret.results) = 2
    /\ fs[FilePath].data = <<"y">>
    /\ fs[GPath].data = <<"x">>

\* C8: under rollback, when an edit or a per-file step fails, the call returns
\* status error and every file of the batch holds what it held before the call.
C8_RollbackRestoresAll ==
    (call.op = "edit_blocks" /\ call.policy = "rollback"
        /\ (ret.raised \/ ret.status # "success")) =>
        /\ ~ret.raised
        /\ ret.status = "error"
        /\ \A F \in BatchFiles : fs[F].data = call.fs[F].data

\* C10: under continue a failing item never aborts the call: every submitted
\* edit has a result entry, and every file holds the effect of the edits that
\* applied to it.
C10_ContinueNeverAborts ==
    (call.op = "edit_blocks" /\ call.policy = "continue") =>
        /\ ~ret.raised
        /\ {ret.results[n].idx : n \in 1..Len(ret.results)} = 1..Len(call.edits)
        /\ \A F \in BatchFiles :
               HoldsBuffer(F, BufferAt(call.fs, call.edits, F, Len(call.edits)))

----------------------------------------------------------------------------
(* The operations of server.py that take an expected_mtime: file_ops        *)
(* (write, append, delete, copy, move) and dir_ops delete.                  *)

\* server.py line 18
MTIME_EPSILON_NS == 10000000

\* server.py _normalize_expected_mtime: the time in nanoseconds, int(expected)
\* for a number above 1e12 (unit "ns") and int(expected * 1e9) for one in
\* seconds; either way the nanoseconds of tick expected.t
_normalize_expected_mtime(expected) == expected.t * TickNs

\* server.py _current_mtime_ns
_current_mtime_ns(d, path) == d[path].mtime * TickNs

\* server.py _check_expected_mtime: the error raised, "" when none
_check_expected_mtime(d, path, expected) ==
    IF expected = NoMtime THEN ""
    ELSE IF ~exists(d, path) THEN "NotFound"
    ELSE IF Abs(_current_mtime_ns(d, path) - _normalize_expected_mtime(expected[1]))
                > MTIME_EPSILON_NS
    THEN "Conflict"
    ELSE ""

\* the directory entry p is added or removed at time now
entry_changed(d, p, now) ==
    IF p = <<>> THEN d ELSE [d EXCEPT ![parent(p)].mtime = now]

\* Path.unlink
unlink(d, path, now) == entry_changed([d EXCEPT ![path] = NoNode], path, now)

\* shutil.rmtree: the directory and everything below it
rmtree(d, path, now) ==
    entry_changed([n \in DOMAIN d |-> IF IsPrefix(path, n) THEN NoNode ELSE d[n]], path, now)

\* Path.rename(dest), dest absent: the node and what is below it change place
rename(d, source, dest, now) ==
    entry_changed(
        entry_changed(
            [n \in DOMAIN d |->
                IF IsPrefix(dest, n)
                THEN LET from == source \o SubSeq(n, Len(dest) + 1, Len(n))
                     IN  IF from \in DOMAIN d THEN d[from] ELSE NoNode
                ELSE IF IsPrefix(source, n) THEN NoNode
                ELSE d[n]],
            source, now),
        dest, now)

\* shutil.copy2 of a file to an absent dest: content and mtime are copied
copy2(d, source, dest, now) == entry_changed([d EXCEPT ![dest] = d[source]], dest, now)

\* tools/filesystem.py move_file, dest validated as dv
move_file_to(dv, d, source, expected, now) ==
    IF ~dv.ok THEN Raise(d, dv.err)
    ELSE IF ~exists(d, source) THEN Raise(d, "NotFound")
    ELSE IF exists(d, dv.path) THEN Raise(d, "AlreadyExists")
    ELSE IF expected # NoMtime /\ mtime_conflict(d[source].mtime, expected[1])
    THEN Raise(d, "Conflict")
    ELSE IF ~mkdir_ok(d, dv.path) THEN Raise(d, "NotADirectory")
    ELSE Done(rename(mkdir_parents(d, parent(dv.path), now), source, dv.path, now))

\* tools/filesystem.py move_file, source validated as sv
move_file_from(sv, d, rs, base, destination_path, expected, now) ==
    IF ~sv.ok THEN Raise(d, sv.err)
    ELSE move_file_to(validate_path(destination_path, rs, base), d, sv.path, expected, now)

\* tools/filesystem.py move_file
move_file(d, rs, base, source_path, destination_path, expected, now) ==
    move_file_from(validate_path(source_path, rs, base), d, rs, base, destination_path,
                   expected, now)

\* file_ops copy, lines 409-420, dest validated as dv
copy_to(dv, d, source, expected, now) ==
    IF ~dv.ok THEN Raise(d, dv.err)
    ELSE IF ~exists(d, source) THEN Raise(d, "NotFound")
    ELSE IF ~is_file(d, source) THEN Raise(d, "IsADirectory")
    ELSE IF exists(d, dv.path) THEN Raise(d, "AlreadyExists")
    ELSE IF _check_expected_mtime(d, source, expected) # ""
    THEN Raise(d, _check_expected_mtime(d, source, expected))
    ELSE IF ~mkdir_ok(d, dv.path) THEN Raise(d, "NotADirectory")
    ELSE Done(copy2(mkdir_parents(d, parent(dv.path), now), source, dv.path, now))

\* file_ops copy, lines 408-420, source validated as sv
copy_from(sv, d, rs, base, destination_path, expected, now) ==
    IF ~sv.ok THEN Raise(d, sv.err)
    ELSE copy_to(validate_path(destination_path, rs, base), d, sv.path, expected, now)

\* file_ops delete, lines 392-399, file_path validated as v
delete_file(v, d, expected, now) ==
    IF ~v.ok THEN Raise(d, v.err)
    ELSE IF ~exists(d, v.path) THEN Raise(d, "NotFound")
    ELSE IF is_dir(d, v.path) THEN Raise(d, "IsADirectory")
    ELSE IF _check_expected_mtime(d, v.path, expected) # ""
    THEN Raise(d, _check_expected_mtime(d, v.path, expected))
    ELSE Done(unlink(d, v.path, now))

\* server.py file_ops: args holds the arguments the action reads
file_ops(d, rs, base, action, args, now) ==
    IF action \in {"write", "append"}
    THEN write_file(d, rs, base, args.file_path, args.content,
                    IF action = "write" THEN "rewrite" ELSE "append", args.expected_mtime, now)
    ELSE IF action = "delete"
    THEN delete_file(validate_path(args.file_path, rs, base), d, args.expected_mtime, now)
    ELSE IF action = "move"
    THEN move_file(d, rs, base, args.source_path, args.destination_path,
                   args.expected_mtime, now)
    ELSE IF action = "copy"
    THEN copy_from(validate_path(args.source_path, rs, base), d, rs, base,
                   args.destination_path, args.expected_mtime, now)
    ELSE Raise(d, "InvalidArgument")

\* server.py lines 22-28, the POSIX ones
CRITICAL_PATHS == {<<>>, <<"home">>, <<"root">>, <<"Users">>}

\* server.py _delete_confirm_token: "delete:" and the path; a token is kept as
\* the path it names
_delete_confirm_token(resolved) == resolved

\* server.py _is_directory_empty
_is_directory_empty(d, path) ==
    ~\E n \in DOMAIN d : Len(n) = Len(path) + 1 /\ IsPrefix(path, n) /\ exists(d, n)

\* _delete_directory with no test of expected_mtime before the rmtree
delete_checked_unlocked(v, d, active, expected, confirm_token, allow_nonempty, now) ==
    IF ~v.ok THEN Raise(d, v.err)
    ELSE IF ~exists(d, v.path) THEN Raise(d, "NotFound")
    ELSE IF ~is_dir(d, v.path) THEN Raise(d, "NotADirectory")
    ELSE IF IsPrefix(v.path, active) THEN Raise(d, "PermissionRefused")
    ELSE IF v.path \in CRITICAL_PATHS THEN Raise(d, "PermissionRefused")
    ELSE IF confirm_token # _delete_confirm_token(v.path) THEN Raise(d, "PermissionRefused")
    ELSE IF ~allow_nonempty /\ ~_is_directory_empty(d, v.path)
    THEN Raise(d, "PermissionRefused")
    ELSE Done(rmtree(d, v.path, now))

\* _delete_directory without the refusals of lines 326-332
delete_checked_unguarded(v, d, active, expected, confirm_token, allow_nonempty, now) ==
    IF ~v.ok THEN Raise(d, v.err)
    ELSE IF ~exists(d, v.path) THEN Raise(d, "NotFound")
    ELSE IF ~is_dir(d, v.path) THEN Raise(d, "NotADirectory")
    ELSE IF confirm_token # _delete_confirm_token(v.path) THEN Raise(d, "PermissionRefused")
    ELSE IF ~allow_nonempty /\ ~_is_directory_empty(d, v.path)
    THEN Raise(d, "PermissionRefused")
    ELSE IF _check_expected_mtime(d, v.path, expected) # ""
    THEN Raise(d, _check_expected_mtime(d, v.path, expected))
    ELSE Done(rmtree(d, v.path, now))

\* server.py _delete_directory lines 320-350, directory_path validated as v
delete_checked(v, d, active, expected, confirm_token, allow_nonempty, now) ==
    IF ~v.ok THEN Raise(d, v.err)
    ELSE IF ~exists(d, v.path) THEN Raise(d, "NotFound")
    ELSE IF ~is_dir(d, v.path) THEN Raise(d, "NotADirectory")
    ELSE IF IsPrefix(v.path, active) THEN Raise(d, "PermissionRefused")
    ELSE IF v.path \in CRITICAL_PATHS THEN Raise(d, "PermissionRefused")
    ELSE IF confirm_token # _delete_confirm_token(v.path) THEN Raise(d, "PermissionRefused")
    ELSE IF ~allow_nonempty /\ ~_is_directory_empty(d, v.path)
    THEN Raise(d, "PermissionRefused")
    ELSE IF _check_expected_mtime(d, v.path, expected) # ""
    THEN Raise(d, _check_expected_mtime(d, v.path, expected))
    ELSE Done(rmtree(d, v.path, now))

\* server.py _delete_directory; a missing argument is <<>>
_delete_directory(d, rs, base, directory_path, expected, confirm_token, allow_nonempty, now) ==
    IF expected = NoMtime THEN Raise(d, "InvalidArgument")
    ELSE IF confirm_token = <<>> THEN Raise(d, "InvalidArgument")
    ELSE IF allow_nonempty = <<>> THEN Raise(d, "InvalidArgument")
    ELSE delete_checked(validate_path(directory_path, rs, base), d, base, expected,
                        confirm_token[1], allow_nonempty[1], now)

----------------------------------------------------------------------------
(* The operations under an expected_mtime that may be stale: the clock      *)
(* ticks, another process rewrites r/f or touches the directory r/o, then   *)
(* one operation is called.                                                 *)

MaxClock == 4

\* the tree, with an empty directory r/e and room for r/n and r/n/f
MtimeTree ==
    [n \in Nodes \cup {<<"r", "e">>, <<"r", "n">>, <<"r", "n", "f">>} |->
        IF n \in Nodes THEN Tree[n]
        ELSE IF n = <<"r", "e">> THEN [kind |-> "dir", data |-> <<>>, mtime |-> 0]
        ELSE NoNode]

Rel(parts) == [abs |-> FALSE, parts |-> parts]

\* a file, a directory with a file in it, an empty directory, a name not in
\* use, a file outside the root
TargetRequests ==
    { Rel(<<"f">>), Rel(<<"o">>), Rel(<<"e">>), Rel(<<"n">>),
      [abs |-> TRUE, parts |-> <<"o", "f">>] }

DestRequests == { Rel(<<"g">>), Rel(<<"n", "f">>), [abs |-> TRUE, parts |-> <<"o", "n">>] }

ExpectedMtimes == {<<[unit |-> u, t |-> t]>> : u \in {"s", "ns"}, t \in 0..MaxClock}

InitMtime ==
    /\ roots = << <<"r">> >>
    /\ root = <<"r">>
    /\ fs = MtimeTree
    /\ clock = 0
    /\ call = NoCall
    /\ ret = NoCall
    /\ cache = EmptyCache

Tick ==
    /\ call.op = "none"
    /\ clock < MaxClock
    /\ clock' = clock + 1
    /\ UNCHANGED <<sandbox, fs, call, ret, cache>>

\* another process rewrites the file r/f, or adds and removes an entry of r/o
Touch(p) ==
    /\ call.op = "none"
    /\ fs[p].mtime < clock
    /\ fs' = IF is_file(fs, p) THEN [fs EXCEPT ![p] = [@ EXCEPT !.data = <<"c">>, !.mtime = clock]]
             ELSE [fs EXCEPT ![p].mtime = clock]
    /\ UNCHANGED <<sandbox, clock, call, ret, cache>>

\* the call is recorded with the path the expected_mtime is about
Called(op, target, expected, args, out) ==
    /\ call.op = "none"
    /\ call' = [op |-> op, target |-> target, expected |-> expected, args |-> args, fs |-> fs]
    /\ ret' = [ok |-> out.ok, err |-> out.err]
    /\ fs' = out.fs
    /\ cache' = IF "cache" \in DOMAIN out THEN out.cache ELSE cache
    /\ UNCHANGED <<sandbox, clock>>

FileOp(action, args, target) ==
    Called(action, target, args.expected_mtime, args,
           file_ops(fs, get_allowed_roots, get_root, action, args, clock))

LockedEdit(req, search, expected) ==
    LET out == edit_block(cache, fs, get_allowed_roots, get_root, req, search, <<"b">>, 1,
                          expected, FALSE, FALSE, clock)
    IN  Called("edit_block", req, expected, [search |-> search],
               [fs |-> out.fs, ok |-> out.result.ok, err |-> out.result.err,
                cache |-> out.cache])

DeleteDirectory(req, expected, token, allow) ==
    Called("delete_directory", req, expected, [confirm_token |-> token, allow_nonempty |-> allow],
           _delete_directory(fs, get_allowed_roots, get_root, req, expected, <<token>>,
                             <<allow>>, clock))

NextMtime ==
    \/ Tick
    \/ \E p \in {FilePath, <<"r", "o">>} : Touch(p)
    \/ \E req \in TargetRequests, e \in ExpectedMtimes \cup {NoMtime},
          action \in {"write", "append"} :
            FileOp(action, [file_path |-> req, content |-> <<"b">>, expected_mtime |-> e], req)
    \/ \E req \in TargetRequests, e \in ExpectedMtimes :
            FileOp("delete", [file_path |-> req, expected_mtime |-> e], req)
    \/ \E src \in TargetRequests, dst \in DestRequests, e \in ExpectedMtimes,
          action \in {"copy", "move"} :
            FileOp(action, [source_path |-> src, destination_path |-> dst,
                            expected_mtime |-> e], src)
    \/ \E req \in TargetRequests, search \in {<<"a">>, <<"c">>, <<"z">>}, e \in ExpectedMtimes :
            LockedEdit(req, search, e)
    \/ \E req \in TargetRequests, e \in ExpectedMtimes,
          token \in {<<"r", "o">>, <<"r", "e">>}, allow \in BOOLEAN :
            DeleteDirectory(req, e, token, allow)

SpecMtime == InitMtime /\ [][NextMtime]_vars

\* the path the call's expected_mtime is about
Target == resolve(absolute_of(call.target, root))

\* the call was given an expected_mtime, its target exists, and the target's
\* modification time is more than 10 ms away from the expected one
StaleCall ==
    /\ call.op \in {"write", "append", "edit_block", "copy", "move", "delete",
                    "delete_directory"}
    /\ call.expected # NoMtime
    /\ exists(call.fs, Target)
    /\ Abs(call.fs[Target].mtime - call.expected[1].t) * TickNs > 10000000

\* C2 as the specification states it: a stale expected_mtime makes the
\* operation fail with Conflict, and the disk is as it was.
C2_StaleAlwaysConflict ==
    StaleCall => (~ret.ok /\ ret.err = "Conflict" /\ fs = call.fs)

\* every check the operation makes before it looks at the modification time
\* passes
EarlierChecksPass ==
    LET dest == resolve(absolute_of(call.args.destination_path, root))
    IN  /\ IsPrefix(root, Target)
        /\ call.op = "edit_block" =>
               /\ is_file(call.fs, Target)
               /\ str_count(read_text(call.fs[Target].data), call.args.search) = 1
        /\ call.op = "delete" => is_file(call.fs, Target)
        /\ call.op = "copy" => is_file(call.fs, Target)
        /\ call.op \in {"copy", "move"} => IsPrefix(root, dest) /\ ~exists(call.fs, dest)
        /\ call.op = "delete_directory" =>
               /\ is_dir(call.fs, Target)
               /\ ~IsPrefix(Target, root)
               /\ call.args.confirm_token = Target
               /\ call.args.allow_nonempty \/ _is_directory_empty(call.fs, Target)

\* C2, amended: a stale expected_mtime makes the operation fail with nothing
\* written, renamed, deleted or created; the failure is Conflict when every
\* earlier check of the operation passes, and the failure of the first such
\* check otherwise.
C2_StaleNeverWrites ==
    StaleCall =>
        /\ ~ret.ok
        /\ fs = call.fs
        /\ EarlierChecksPass => ret.err = "Conflict"

\* delete_directory of r/o, non-empty allowed, the right token, an expected
\* time more than 10 ms from the directory's: Conflict, r/o and r/o/f stay
C2_Witness ==
    /\ call.op = "delete_directory"
    /\ StaleCall
    /\ Target = <<"r", "o">>
    /\ call.args.allow_nonempty
    /\ ret.err = "Conflict"
    /\ is_file(fs, <<"r", "o", "f">>)

----------------------------------------------------------------------------
(* write_file step by step, lines 337-342: open(path, "w" or "a"), the      *)
(* write of the content, which reaches the file in one or more parts, and   *)
(* the close; another process reads the file at any moment, and a timeout   *)
(* may abandon the write at any moment.                                     *)

MaxWrite == 2

WriteContents == SeqsUpTo({"b", LF}, MaxWrite) \ {<<>>}

\* the disk once open(path, "w" or "a") has returned: "w" leaves the file
\* empty, "a" leaves an existing file as it is
opened(d, path, mode, now) ==
    IF mode = "append" /\ is_file(d, path) THEN d
    ELSE written(d, path, <<>>, "rewrite", now)

\* the disk once the next part of the content has reached the file
part_written(d, path, part, now) ==
    [d EXCEPT ![path] = [@ EXCEPT !.data = @ \o part, !.mtime = now]]

InitWrite ==
    /\ roots = << <<"r">> >>
    /\ root = <<"r">>
    /\ \E c \in {<<"x">>, <<"x", LF, "y">>} : fs = [Tree EXCEPT ![FilePath].data = c]
    /\ clock = 1
    /\ call = NoCall
    /\ ret = NoCall
    /\ cache = EmptyCache

\* write_file up to and including the open: lines 320-338 (341)
StartWrite(content, mode) ==
    /\ call.op = "none"
    /\ write_file(fs, get_allowed_roots, get_root, TheFile, content, mode, NoMtime, clock).ok
    /\ fs' = opened(fs, FilePath, mode, clock)
    /\ call' = [op |-> "write", mode |-> mode, content |-> content, old |-> fs[FilePath].data,
                left |-> content, pc |-> "open"]
    /\ UNCHANGED <<sandbox, clock, ret, cache>>

\* f.write(content), line 339 (342): the next k characters reach the file
WritePart(k) ==
    /\ call.op = "write" /\ call.pc = "open"
    /\ k \in 1..Len(call.left)
    /\ fs' = part_written(fs, FilePath, SubSeq(call.left, 1, k), clock)
    /\ call' = [call EXCEPT !.left = SubSeq(@, k + 1, Len(@))]
    /\ UNCHANGED <<sandbox, clock, ret, cache>>

\* the end of the with block: everything is written, write_file returns
CloseWrite ==
    /\ call.op = "write" /\ call.pc = "open"
    /\ call.left = <<>>
    /\ call' = [call EXCEPT !.pc = "closed"]
    /\ UNCHANGED <<sandbox, clock, fs, ret, cache>>

\* the write is abandoned where it is
AbortWrite ==
    /\ call.op = "write" /\ call.pc = "open"
    /\ call' = [call EXCEPT !.pc = "aborted"]
    /\ UNCHANGED <<sandbox, clock, fs, ret, cache>>

\* another process reads the whole file
ReadFile ==
    /\ call.op = "write"
    /\ ret' = [op |-> "read", seen |-> fs[FilePath].data]
    /\ UNCHANGED <<sandbox, clock, fs, call, cache>>

NextWrite ==
    \/ \E content \in WriteContents, mode \in {"rewrite", "append"} : StartWrite(content, mode)
    \/ \E k \in 1..MaxWrite : WritePart(k)
    \/ CloseWrite
    \/ AbortWrite
    \/ ReadFile

SpecWrite == InitWrite /\ [][NextWrite]_vars

\* the complete new content of the write in flight
NewContent == IF call.mode = "append" THEN call.old \o call.content ELSE call.content

\* C3: during a write or an append a reader sees the complete old content or
\* the complete new content, never a truncated or partly written file, and a
\* write abandoned midway leaves the complete old content.
C3_ReaderSeesOldOrNew ==
    call.op = "write" =>
        /\ ret.op = "read" => ret.seen \in {call.old, NewContent}
        /\ call.pc = "aborted" => fs[FilePath].data = call.old

----------------------------------------------------------------------------
(* The diff applier (specification 4.5) and apply_diff (specification 6).   *)
(* server.py holds its helpers _read_lines and _write_text; the applier     *)
(* itself is written from the specification.  A diff is the sequence of     *)
(* its hunks: [old_start, old_len, new_start, new_len, lines], a line being *)
(* [marker, text] with the text ending in its line terminator.              *)

\* str.splitlines(keepends=True): a line ends after "\r\n", "\r" or "\n"
RECURSIVE splitlines(_)
splitlines(text) ==
    IF text = <<>> THEN <<>>
    ELSE IF \A i \in 1..Len(text) : text[i] \notin {LF, CR} THEN <<text>>
    ELSE LET i == Min({k \in 1..Len(text) : text[k] \in {LF, CR}})
             j == IF text[i] = CR /\ i < Len(text) /\ text[i + 1] = LF THEN i + 1 ELSE i
         IN  <<SubSeq(text, 1, j)>> \o splitlines(SubSeq(text, j + 1, Len(text)))

\* "".join(lines)
RECURSIVE join(_)
join(lines) == IF lines = <<>> THEN <<>> ELSE Head(lines) \o join(Tail(lines))

\* server.py _read_lines: Path.read_text (universal newlines), then
\* splitlines(keepends=True)
_read_lines(data) == splitlines(read_text(data))

\* server.py _write_text: the whole content replaces the file
_write_text(d, path, content, now) == written(d, path, content, "rewrite", now)

\* original[i:j] taken for empty: no line of the original is copied
lines_between_none(original, i, j) == <<>>

\* original[i:j] of a list of lines
lines_between(original, i, j) == SubSeq(original, i + 1, Min({j, Len(original)}))

DiffFail(err) == [ok |-> FALSE, err |-> err, lines |-> <<>>, consumed |-> <<>>]

HunkState(err, out, idx, olds, news) ==
    [err |-> err, out |-> out, idx |-> idx, olds |-> olds, news |-> news]

RECURSIVE apply_hunk_lines(_, _, _, _, _, _)

\* the lines of one hunk with a deletion line never compared with the original
apply_hunk_lines_blind(original, lines, out, idx, olds, news) ==
    IF lines = <<>> THEN HunkState("", out, idx, olds, news)
    ELSE IF Head(lines).marker = " "
    THEN IF idx >= Len(original) \/ original[idx + 1] # Head(lines).text
         THEN HunkState("ContextMismatch", out, idx, olds, news)
         ELSE apply_hunk_lines(original, Tail(lines), Append(out, original[idx + 1]),
                               idx + 1, olds + 1, news + 1)
    ELSE IF Head(lines).marker = "-"
    THEN apply_hunk_lines(original, Tail(lines), out, idx + 1, olds + 1, news)
    ELSE IF Head(lines).marker = "+"
    THEN apply_hunk_lines(original, Tail(lines), Append(out, Head(lines).text),
                          idx, olds, news + 1)
    ELSE IF Head(lines).marker = BS
    THEN apply_hunk_lines(original, Tail(lines), out, idx, olds, news)
    ELSE HunkState("InvalidHunkMarker", out, idx, olds, news)

\* the lines of one hunk, in order: out is the output so far, idx the
\* old-index, olds and news the numbers of old-side and new-side lines seen
apply_hunk_lines(original, lines, out, idx, olds, news) ==
    IF lines = <<>> THEN HunkState("", out, idx, olds, news)
    ELSE IF Head(lines).marker = " "
    THEN IF idx >= Len(original) \/ original[idx + 1] # Head(lines).text
         THEN HunkState("ContextMismatch", out, idx, olds, news)
         ELSE apply_hunk_lines(original, Tail(lines), Append(out, original[idx + 1]),
                               idx + 1, olds + 1, news + 1)
    ELSE IF Head(lines).marker = "-"
    THEN IF idx >= Len(original) \/ original[idx + 1] # Head(lines).text
         THEN HunkState("DeletionMismatch", out, idx, olds, news)
         ELSE apply_hunk_lines(original, Tail(lines), out, idx + 1, olds + 1, news)
    ELSE IF Head(lines).marker = "+"
    THEN apply_hunk_lines(original, Tail(lines), Append(out, Head(lines).text),
                          idx, olds, news + 1)
    ELSE IF Head(lines).marker = BS
    THEN apply_hunk_lines(original, Tail(lines), out, idx, olds, news)
    ELSE HunkState("InvalidHunkMarker", out, idx, olds, news)

RECURSIVE apply_hunks(_, _, _, _, _)

\* the end of the first hunk of hunks, r being the state after its lines
after_hunk(original, hunks, r, consumed) ==
    IF r.err # "" THEN DiffFail(r.err)
    ELSE IF r.olds # Head(hunks).old_len \/ r.news # Head(hunks).new_len
    THEN DiffFail("HunkLengthMismatch")
    ELSE apply_hunks(original, Tail(hunks), r.out, r.idx, Append(consumed, r.idx))

\* a hunk starts at old-index old_start - 1
hunk_start(hunk) == hunk.old_start - 1

\* the hunks with no test of a hunk's start against the old-index consumed
apply_hunks_unordered(original, hunks, out, idx, consumed) ==
    IF hunks = <<>>
    THEN [ok |-> TRUE, err |-> "",
          lines |-> out \o lines_between(original, idx, Len(original)),
          consumed |-> consumed]
    ELSE after_hunk(original, hunks,
                    apply_hunk_lines(original, Head(hunks).lines,
                                     out \o lines_between(original, idx,
                                                          hunk_start(Head(hunks))),
                                     hunk_start(Head(hunks)), 0, 0),
                    consumed)

\* the hunks in header order: out and idx as above, consumed the old-index
\* after each hunk so far
apply_hunks(original, hunks, out, idx, consumed) ==
    IF hunks = <<>>
    THEN [ok |-> TRUE, err |-> "",
          lines |-> out \o lines_between(original, idx, Len(original)),
          consumed |-> consumed]
    ELSE IF hunk_start(Head(hunks)) < idx THEN DiffFail("OverlappingHunks")
    ELSE after_hunk(original, hunks,
                    apply_hunk_lines(original, Head(hunks).lines,
                                     out \o lines_between(original, idx,
                                                          hunk_start(Head(hunks))),
                                     hunk_start(Head(hunks)), 0, 0),
                    consumed)

\* DiffApplier.apply
apply(original_lines, hunks) ==
    IF hunks = <<>> THEN DiffFail("NoHunks")
    ELSE apply_hunks(original_lines, hunks, <<>>, 0, <<>>)

\* the file is written when the diff applied
diff_written(d, path, r, now) ==
    [fs |-> IF r.ok THEN _write_text(d, path, join(r.lines), now) ELSE d, result |-> r]

\* apply_diff(path, diff_text, expected_mtime)
apply_diff(d, rs, base, req, hunks, expected, now) ==
    LET v == validate_path(req, rs, base)
    IN  IF ~v.ok THEN [fs |-> d, result |-> DiffFail(v.err)]
        ELSE IF ~exists(d, v.path) THEN [fs |-> d, result |-> DiffFail("NotFound")]
        ELSE IF is_dir(d, v.path) THEN [fs |-> d, result |-> DiffFail("IsADirectory")]
        ELSE IF _check_expected_mtime(d, v.path, expected) # ""
        THEN [fs |-> d, result |-> DiffFail(_check_expected_mtime(d, v.path, expected))]
        ELSE diff_written(d, v.path, apply(_read_lines(d[v.path].data), hunks), now)

MaxHunkLines == 2

MaxHunks == 2

MaxApply == 3

Line(c) == <<c, LF>>

\* context a, deletion of a or b, insertion of B, the "no newline at end of
\* file" line, and a line with a marker that is none of the four
HunkLines ==
    { [marker |-> " ", text |-> Line("a")], [marker |-> "-", text |-> Line("a")],
      [marker |-> "-", text |-> Line("b")], [marker |-> "+", text |-> Line("B")],
      [marker |-> BS, text |-> <<>>], [marker |-> "x", text |-> Line("a")] }

OldSide(lines) == SelectSeq(lines, LAMBDA l : l.marker \in {" ", "-"})

NewSide(lines) == SelectSeq(lines, LAMBDA l : l.marker \in {" ", "+"})

\* the hunks with a header that counts its lines right, one old line too
\* many, or one new line too many
Hunks ==
    { [old_start |-> s, old_len |-> Len(OldSide(ls)) + e[1], new_start |-> s,
       new_len |-> Len(NewSide(ls)) + e[2], lines |-> ls] :
        s \in 1..3, ls \in SeqsUpTo(HunkLines, MaxHunkLines),
        e \in {<<0, 0>>, <<1, 0>>, <<0, 1>>} }

Diffs == SeqsUpTo(Hunks, MaxHunks)

DiffFiles ==
    { <<"a", LF, "b", LF, "c", LF>>, <<"a", LF, "b">>, <<"a", CR, LF, "a", CR, LF>> }

InitDiff ==
    /\ roots = << <<"r">> >>
    /\ root = <<"r">>
    /\ \E c \in DiffFiles : fs = [Tree EXCEPT ![FilePath].data = c]
    /\ clock = 1
    /\ call = NoCall
    /\ ret = NoCall
    /\ cache = EmptyCache

ApplyDiff(hunks) ==
    LET out == apply_diff(fs, get_allowed_roots, get_root, TheFile, hunks, NoMtime, clock)
    IN  /\ call.op = "none"
        /\ call' = [op |-> "apply_diff", hunks |-> hunks, fs |-> fs, n |-> 1]
        /\ ret' = out.result
        /\ fs' = out.fs
        /\ UNCHANGED <<sandbox, clock, cache>>

\* the caller applies the one-hunk diff of the last call once more
ApplyAgain ==
    LET out == apply_diff(fs, get_allowed_roots, get_root, TheFile, call.hunks, NoMtime, clock)
    IN  /\ call.op = "apply_diff"
        /\ Len(call.hunks) = 1
        /\ call.n < MaxApply
        /\ call' = [call EXCEPT !.fs = fs, !.n = @ + 1]
        /\ ret' = out.result
        /\ fs' = out.fs
        /\ UNCHANGED <<sandbox, clock, cache>>

NextDiff ==
    \/ call.op = "none" /\ \E hunks \in Diffs : ApplyDiff(hunks)
    \/ ApplyAgain

SpecDiff == InitDiff /\ [][NextDiff]_vars

\* the original line sequence of the last call, and its hunks
Orig == _read_lines(call.fs[FilePath].data)

Texts(lines) == [i \in 1..Len(lines) |-> lines[i].text]

\* the old-index hunk k starts at, and the one after its old-side lines
HStart(k) == call.hunks[k].old_start - 1

HEnd(k) == HStart(k) + Len(OldSide(call.hunks[k].lines))

PrevEnd(k) == IF k = 1 THEN 0 ELSE HEnd(k - 1)

\* hunk k verifies: it starts in the file and not before the end of hunk
\* k - 1, its markers are the four of the format, its context and deletion
\* lines are the original lines at its position, its header counts them
HunkVerifies(k) ==
    LET h == call.hunks[k]
    IN  /\ \A i \in 1..Len(h.lines) : h.lines[i].marker \in {" ", "-", "+", BS}
        /\ HStart(k) >= PrevEnd(k)
        /\ HEnd(k) <= Len(Orig)
        /\ Texts(OldSide(h.lines)) = SubSeq(Orig, HStart(k) + 1, HEnd(k))
        /\ h.old_len = Len(OldSide(h.lines))
        /\ h.new_len = Len(NewSide(h.lines))

AllVerify == call.hunks # <<>> /\ \A k \in 1..Len(call.hunks) : HunkVerifies(k)

\* the output up to and including hunk k: the original lines between the
\* hunks as they are, each hunk's context and insertion lines in its place
RECURSIVE Rewritten(_)
Rewritten(k) ==
    IF k = 0 THEN <<>>
    ELSE Rewritten(k - 1) \o SubSeq(Orig, PrevEnd(k) + 1, HStart(k))
             \o Texts(NewSide(call.hunks[k].lines))

\* C11: when every hunk of the diff verifies, apply succeeds and its output is
\* the original with each hunk's deletion lines removed and its insertion
\* lines placed at the hunk's position, every original line before the first
\* hunk, between hunks and after the last hunk copied in its order; that
\* output is what the file then holds.
C11_ApplyRewritesHunks ==
    (call.op = "apply_diff" /\ AllVerify) =>
        /\ ret.ok
        /\ ret.lines = Rewritten(Len(call.hunks))
                           \o SubSeq(Orig, HEnd(Len(call.hunks)) + 1, Len(Orig))
        /\ fs[FilePath].data = join(ret.lines)

\* lines a, b, c and the hunk @@ -2,1 +2,1 @@ -b +B: a, B, c
C11_Witness ==
    /\ call.op = "apply_diff"
    /\ Orig = <<Line("a"), Line("b"), Line("c")>>
    /\ call.hunks = << [old_start |-> 2, old_len |-> 1, new_start |-> 2, new_len |-> 1,
                        lines |-> << [marker |-> "-", text |-> Line("b")],
                                     [marker |-> "+", text |-> Line("B")] >>] >>
    /\ ret.ok
    /\ ret.lines = <<Line("a"), Line("B"), Line("c")>>
    /\ fs[FilePath].data = <<"a", LF, "B", LF, "c", LF>>

\* a diff of one hunk of context lines only, which are the lines the file has
\* at the hunk's position
NoOpDiff ==
    /\ Len(call.hunks) = 1
    /\ call.hunks[1].lines # <<>>
    /\ \A i \in 1..Len(call.hunks[1].lines) : call.hunks[1].lines[i].marker = " "
    /\ HunkVerifies(1)

\* C12: a diff of one hunk of context lines equal to the file's content at
\* that position applies, and leaves the file byte for byte as it was, at
\* every application.
C12_NoOpDiffKeepsBytes ==
    (call.op = "apply_diff" /\ NoOpDiff) =>
        /\ ret.ok
        /\ fs[FilePath].data = call.fs[FilePath].data

\* C13: in a diff of two or more hunks, a hunk that starts before the
\* old-index the hunks before it (all verified) have consumed makes apply
\* fail with OverlappingHunks, with no output and the disk as it was; hunks
\* are taken in header order, so that after a successful apply the old-index
\* consumed after hunk k is the end of hunk k, and it never decreases.
C13_OverlapRejected ==
    call.op = "apply_diff" =>
        /\ \A k \in 2..Len(call.hunks) :
               ((\A j \in 1..(k - 1) : HunkVerifies(j)) /\ HStart(k) < HEnd(k - 1)) =>
                   /\ ~ret.ok
                   /\ ret.err = "OverlappingHunks"
                   /\ ret.lines = <<>>
                   /\ fs = call.fs
        /\ ret.ok =>
               /\ ret.consumed = [k \in 1..Len(call.hunks) |-> HEnd(k)]
               /\ \A k \in 2..Len(call.hunks) : ret.consumed[k - 1] <= ret.consumed[k]

\* lines a, b, c: a first hunk replaces line 2, a second one starts at line 1
C13_Witness ==
    /\ call.op = "apply_diff"
    /\ Orig = <<Line("a"), Line("b"), Line("c")>>
    /\ Len(call.hunks) = 2
    /\ HunkVerifies(1)
    /\ call.hunks[1].old_start = 2
    /\ call.hunks[1].lines = << [marker |-> "-", text |-> Line("b")],
                                [marker |-> "+", text |-> Line("B")] >>
    /\ call.hunks[2].old_start = 1
    /\ ret.err = "OverlappingHunks"
    /\ fs = call.fs

\* the old-index of line m of hunk k
LineIndex(k, m) == HStart(k) + Len(OldSide(SubSeq(call.hunks[k].lines, 1, m - 1)))

\* line m of hunk k is a context or deletion line, the original has a line at
\* its old-index, and the two differ
Differs(k, m) ==
    /\ call.hunks[k].lines[m].marker \in {" ", "-"}
    /\ LineIndex(k, m) < Len(Orig)
    /\ Orig[LineIndex(k, m) + 1] # call.hunks[k].lines[m].text

\* line m of hunk k passes
Passes(k, m) ==
    /\ call.hunks[k].lines[m].marker \in {" ", "-", "+", BS}
    /\ call.hunks[k].lines[m].marker \in {" ", "-"} =>
           /\ LineIndex(k, m) < Len(Orig)
           /\ Orig[LineIndex(k, m) + 1] = call.hunks[k].lines[m].text

\* line m of hunk k is the first thing wrong with the diff
FirstMismatch(k, m) ==
    /\ \A j \in 1..(k - 1) : HunkVerifies(j)
    /\ HStart(k) >= PrevEnd(k)
    /\ \A i \in 1..(m - 1) : Passes(k, i)
    /\ Differs(k, m)

\* C14: a context line that differs from the original line at the current
\* old-index makes apply fail with ContextMismatch, a deletion line that
\* differs from it with DeletionMismatch, and the file on disk is as it was,
\* also when hunks before that one verified.
C14_MismatchLeavesFile ==
    call.op = "apply_diff" =>
        \A k \in 1..Len(call.hunks) : \A m \in 1..Len(call.hunks[k].lines) :
            FirstMismatch(k, m) =>
                /\ ~ret.ok
                /\ ret.err = (IF call.hunks[k].lines[m].marker = " " THEN "ContextMismatch"
                              ELSE "DeletionMismatch")
                /\ fs = call.fs

\* lines a, b, c: the first hunk (context a at line 1) verifies, the second
\* deletes "a" at line 2, which is "b"
C14_Witness ==
    /\ call.op = "apply_diff"
    /\ Orig = <<Line("a"), Line("b"), Line("c")>>
    /\ Len(call.hunks) = 2
    /\ HunkVerifies(1)
    /\ call.hunks[2].lines # <<>>
    /\ call.hunks[2].lines[1].marker = "-"
    /\ FirstMismatch(2, 1)
    /\ ret.err = "DeletionMismatch"
    /\ fs = call.fs

----------------------------------------------------------------------------
(* Whole files: write_file in both modes, the two reads of tools/           *)
(* filesystem.py and get_file_info, on one file that is written, appended   *)
(* to and then read.                                                        *)

\* tools/config.py (not among the sources): get_file_read_line_limit(), the
\* default length of a read
FILE_READ_LINE_LIMIT == 1000

\* tools/config.py: FILE_SIZE_LIMITS["LINE_COUNT_LIMIT"], in bytes
LINE_COUNT_LIMIT == 10485760

\* tools/filesystem.py _count_lines
_count_lines(content) == IF content # <<>> THEN str_count(content, <<LF>>) + 1 ELSE 0

\* stat().st_size: the bytes of the file; a file too large for its bytes to
\* be written out has the field size instead
st_size(node) == IF "size" \in DOMAIN node THEN node.size ELSE Len(node.data)

\* lines[offset : offset + length]
list_slice(lines, offset, length) ==
    SubSeq(lines, offset + 1, Min({offset + length, Len(lines)}))

\* tools/filesystem.py read_file_internal, lines 308-316: the file is opened
\* in text mode. The code's bound on length is 1 << 53; every length used
\* here is below it and below the 10^9 that stands for it.
read_file_internal(data, offset, length) ==
    IF offset = 0 /\ length >= 1000000000 THEN read_text(data)
    ELSE join(list_slice(splitlines(read_text(data)), offset, length))

\* line.rstrip("\n")
RECURSIVE rstrip_newline(_)
rstrip_newline(line) ==
    IF line # <<>> /\ line[Len(line)] = LF
    THEN rstrip_newline(SubSeq(line, 1, Len(line) - 1))
    ELSE line

\* "\n".join(result)
RECURSIVE join_newline(_)
join_newline(result) ==
    IF result = <<>> THEN <<>>
    ELSE IF Len(result) = 1 THEN result[1]
    ELSE result[1] \o <<LF>> \o join_newline(Tail(result))

\* tools/filesystem.py _generate_status_message: one element stands for the
\* bracketed sentence
StatusMessage == "[Reading lines from start]"

\* tools/filesystem.py _read_from_start_with_readline, the status message
\* included: the lines of the file opened in text mode, from offset on, at
\* most length of them, each without its "\n", joined by "\n"
_read_from_start_with_readline(data, offset, length) ==
    LET lines == list_slice(splitlines(read_text(data)), offset, length)
    IN  <<StatusMessage, LF, LF>>
            \o join_newline([i \in 1..Len(lines) |-> rstrip_newline(lines[i])])

\* tools/filesystem.py get_file_info: lineCount and its two companions are
\* there for a regular file below LINE_COUNT_LIMIT
file_info(node) ==
    IF node.kind = "file" /\ st_size(node) < LINE_COUNT_LIMIT
    THEN [ok |-> TRUE, err |-> "", size |-> st_size(node), isFile |-> TRUE,
          lines |-> <<_count_lines(read_text(node.data))>>]
    ELSE [ok |-> TRUE, err |-> "", size |-> st_size(node), isFile |-> node.kind = "file",
          lines |-> <<>>]

get_file_info(d, rs, base, req) ==
    LET v == validate_path(req, rs, base)
    IN  IF ~v.ok THEN [ok |-> FALSE, err |-> v.err]
        ELSE IF ~exists(d, v.path) THEN [ok |-> FALSE, err |-> "NotFound"]
        ELSE file_info(d[v.path])

MaxContent == 3

MaxAppends == 2

FileChars == {"a", LF, CR}

AppendContents == {<<>>, <<"b">>, <<LF>>, <<"b", LF>>}

BigFile == [abs |-> FALSE, parts |-> <<"g">>]

\* r/f holds "a\n" or does not exist; r/g is a file of LINE_COUNT_LIMIT bytes
\* or one more
InitFile ==
    /\ roots = << <<"r">> >>
    /\ root = <<"r">>
    /\ \E f \in {Tree[FilePath], NoNode}, size \in {LINE_COUNT_LIMIT, LINE_COUNT_LIMIT + 1} :
           fs = [Tree EXCEPT ![FilePath] = f,
                             ![<<"r", "g">>] = [kind |-> "file", data |-> <<>>, mtime |-> 0,
                                                size |-> size]]
    /\ clock = 1
    /\ call = NoCall
    /\ ret = NoCall
    /\ cache = EmptyCache

\* file_ops("write")
WriteFile(content) ==
    LET out == write_file(fs, get_allowed_roots, get_root, TheFile, content, "rewrite",
                          NoMtime, clock)
    IN  /\ call.op = "none"
        /\ call' = [op |-> "write", content |-> content, appends |-> <<>>]
        /\ ret' = [op |-> "write", ok |-> out.ok]
        /\ fs' = out.fs
        /\ UNCHANGED <<sandbox, clock, cache>>

\* file_ops("append"), after the write and the appends so far
AppendFile(content) ==
    LET out == write_file(fs, get_allowed_roots, get_root, TheFile, content, "append",
                          NoMtime, clock)
    IN  /\ call.op = "write"
        /\ Len(call.appends) < MaxAppends
        /\ call' = [call EXCEPT !.appends = Append(@, content)]
        /\ ret' = [op |-> "append", ok |-> out.ok]
        /\ fs' = out.fs
        /\ UNCHANGED <<sandbox, clock, cache>>

\* the whole file is read: read_file_internal and read_file with the default
\* offset and length
ReadWhole ==
    /\ call.op = "write"
    /\ call' = [call EXCEPT !.op = "read"]
    /\ ret' = [op |-> "read",
               internal |-> read_file_internal(fs[FilePath].data, 0, FILE_READ_LINE_LIMIT),
               tool |-> _read_from_start_with_readline(fs[FilePath].data, 0,
                                                       FILE_READ_LINE_LIMIT)]
    /\ UNCHANGED <<sandbox, clock, fs, cache>>

GetFileInfo(req) ==
    /\ call.op \in {"none", "write"}
    /\ call' = [op |-> "info", req |-> req]
    /\ ret' = get_file_info(fs, get_allowed_roots, get_root, req)
    /\ UNCHANGED <<sandbox, clock, fs, cache>>

NextFile ==
    \/ \E content \in SeqsUpTo(FileChars, MaxContent) : WriteFile(content)
    \/ \E content \in AppendContents : AppendFile(content)
    \/ ReadWhole
    \/ \E req \in {TheFile, BigFile, Rel(<<"o">>), Rel(<<"n">>)} : GetFileInfo(req)

SpecFile == InitFile /\ [][NextFile]_vars

\* C15: write(path, C, rewrite) followed by a read of the whole file returns
\* exactly C, for empty content, content with and without a final newline,
\* and content with CRLF or CR line endings.
C15_WriteReadRoundTrip ==
    (call.op = "read" /\ call.appends = <<>>) =>
        /\ ret.internal = call.content
        /\ ret.tool = call.content

\* C16: after write(path, A, rewrite) and append(path, B1) ... append(path,
\* Bn) with no other writer the file holds exactly A + B1 + ... + Bn.
C16_AppendsConcatenate ==
    call.op = "write" => fs[FilePath].data = call.content \o join(call.appends)

\* "a\n", then "b\n" and "b" appended: "a\nb\nb"
C16_Witness ==
    /\ call.op = "write"
    /\ call.content = <<"a", LF>>
    /\ call.appends = << <<"b", LF>>, <<"b">> >>
    /\ fs[FilePath].data = <<"a", LF, "b", LF, "b">>

\* the "\n"-terminated segments of the bytes, and one more for a non-empty
\* rest after the last "\n"
Segments(data) ==
    str_count(data, <<LF>>) + (IF data # <<>> /\ data[Len(data)] # LF THEN 1 ELSE 0)

\* C20: for a file below the line-count threshold get_file_info reports
\* line_count = the number of "\n"-terminated segments, plus one for a
\* non-empty trailing partial segment ("a\n" 1, "a\nb" 2, empty 0); at or
\* above the threshold line_count is omitted.
C20_LineCount ==
    (call.op = "info" /\ ret.ok /\ ret.isFile) =>
        LET node == fs[resolve(absolute_of(call.req, root))]
        IN  IF st_size(node) < LINE_COUNT_LIMIT
            THEN ret.lines = <<Segments(node.data)>>
            ELSE ret.lines = <<>>

----------------------------------------------------------------------------
(* dir_ops delete on the directories it must refuse: the active root, its   *)
(* ancestors and the critical paths, with every combination of arguments    *)
(* given, wrong or missing.                                                 *)

\* the tree with an empty directory r/e and the directory /home
DeleteTree ==
    [n \in DOMAIN MtimeTree \cup {<<"home">>} |->
        IF n = <<"home">> THEN [kind |-> "dir", data |-> <<>>, mtime |-> 0]
        ELSE MtimeTree[n]]

Absolute(parts) == [abs |-> TRUE, parts |-> parts]

\* "/", /r, /r/o, /home, /Users (which does not exist), the empty /r/e, /o,
\* and ".." from the active root
DeleteRequests ==
    { Absolute(<<>>), Absolute(<<"r">>), Absolute(<<"r", "o">>), Absolute(<<"home">>),
      Absolute(<<"Users">>), Absolute(<<"r", "e">>), Absolute(<<"o">>), Rel(<<"..">>) }

\* AllowedRoots and ActiveRoot: no whitelist, "/" allowed, /r allowed with the
\* active root /r or, after set_root_path(/r/o), /r/o
DeleteSandboxes ==
    { << <<>>, <<"r">> >>, << << <<>> >>, <<"r", "o">> >>,
      << << <<"r">> >>, <<"r">> >>, << << <<"r">> >>, <<"r", "o">> >> }

InitDelete ==
    /\ \E sb \in DeleteSandboxes : roots = sb[1] /\ root = sb[2]
    /\ fs = DeleteTree
    /\ clock = 2
    /\ call = NoCall
    /\ ret = NoCall
    /\ cache = EmptyCache

\* dir_ops("delete", ...): confirm_token and allow_nonempty are <<>> when
\* they are not given
DirOpsDelete(req, expected, confirm_token, allow_nonempty) ==
    Called("delete_directory", req, expected,
           [confirm_token |-> confirm_token, allow_nonempty |-> allow_nonempty],
           _delete_directory(fs, get_allowed_roots, get_root, req, expected, confirm_token,
                             allow_nonempty, clock))

NextDelete ==
    \E req \in DeleteRequests,
       expected \in {NoMtime, <<[unit |-> "s", t |-> 0]>>, <<[unit |-> "s", t |-> 2]>>},
       allow_nonempty \in {<<>>, <<TRUE>>, <<FALSE>>} :
        \E confirm_token \in {<<>>, <<resolve(absolute_of(req, root))>>, << <<"x">> >>} :
            DirOpsDelete(req, expected, confirm_token, allow_nonempty)

SpecDelete == InitDelete /\ [][NextDelete]_vars

\* the call is a delete_directory of the active root, of an ancestor of it or
\* of a critical path
RefusedTarget ==
    /\ call.op = "delete_directory"
    /\ IsPrefix(Target, root) \/ Target \in CRITICAL_PATHS

\* C17 as the specification states it: such a delete fails with
\* PermissionRefused and deletes nothing, whatever confirm_token and
\* allow_nonempty are, given or not.
C17_AlwaysPermissionRefused ==
    RefusedTarget => (~ret.ok /\ ret.err = "PermissionRefused" /\ fs = call.fs)

\* expected_mtime, confirm_token and allow_nonempty are given, the directory
\* is inside the sandbox and exists
ReachesRefusal ==
    /\ call.expected # NoMtime
    /\ call.args.confirm_token # <<>>
    /\ call.args.allow_nonempty # <<>>
    /\ _is_path_allowed(Target, roots)
    /\ is_dir(call.fs, Target)

\* C17, amended: such a delete always fails and deletes nothing, whatever
\* confirm_token and allow_nonempty are; the failure is PermissionRefused when
\* the three arguments are given and the directory exists inside the sandbox,
\* and otherwise the failure of the check that comes first.
C17_RefusedDeletesNothing ==
    RefusedTarget =>
        /\ ~ret.ok
        /\ fs = call.fs
        /\ ReachesRefusal => ret.err = "PermissionRefused"
        /\ ~ReachesRefusal =>
               ret.err \in {"InvalidArgument", "AccessDenied", "NotFound"}

\* /r, an ancestor of the active root /r/o, with its token, allow_nonempty and
\* its current modification time: refused, r/f is still there
C17_Witness ==
    /\ RefusedTarget
    /\ root = <<"r", "o">> /\ roots = << <<"r">> >>
    /\ Target = <<"r">>
    /\ call.args.confirm_token = << <<"r">> >>
    /\ call.args.allow_nonempty = <<TRUE>>
    /\ call.expected = <<[unit |-> "s", t |-> 0]>>
    /\ ret.err = "PermissionRefused"
    /\ is_file(fs, <<"r", "f">>)

----------------------------------------------------------------------------
(* AllowedRoots and ActiveRoot under set_root_path (SpecPath) *)

\* no entry is equal to, or a descendant of, another entry
Minimal(rs) == \A i, j \in 1..Len(rs) : i # j => ~IsPrefix(rs[j], rs[i])

\* C18: AllowedRoots, minimal at the start, stays minimal under set_root: no
\* entry is equal to or a descendant of another; a successful set_root(p)
\* leaves no entry that is a descendant of p other than p itself; a failing
\* set_root leaves AllowedRoots and ActiveRoot as they were.
C18_RootsStayMinimal ==
    /\ Minimal(roots)
    /\ (call.op = "set_root" /\ ret.ok) =>
           \A i \in 1..Len(roots) : IsPrefix(ret.path, roots[i]) => roots[i] = ret.path
    /\ (call.op = "set_root" /\ ~ret.ok) => (roots = call.roots /\ root = call.root)

\* /r/o and /o allowed, set_root(/r): /r/o is pruned, /o stays, /r is appended
C18_Witness ==
    /\ call.op = "set_root" /\ ret.ok
    /\ call.roots = << <<"r", "o">>, <<"o">> >>
    /\ ret.path = <<"r">>
    /\ roots = << <<"o">>, <<"r">> >>

----------------------------------------------------------------------------
(* dir_ops list in the flat format: server.py _list_directory.  The tree  *)
(* format is handed on to fs_tools.list_directory and is not taken here.  *)

MaxItems == 3

\* the names the listed directory /r/d can hold
ListNames == {"B", "a", "ab", "b"}

\* the characters of a name or of a pattern
chars(n) ==
    CASE n = "ab" -> <<"a", "b">>
      [] n = "a*" -> <<"a", "*">>
      [] n = "*b" -> <<"*", "b">>
      [] n = "??" -> <<"?", "?">>
      [] OTHER -> <<n>>

\* ord(c) of the characters of ListNames
ord(c) == CASE c = "B" -> 66 [] c = "a" -> 97 [] c = "b" -> 98

\* s < t for two Python strings: by code point, a proper prefix first
RECURSIVE str_lt(_, _)
str_lt(s, t) ==
    IF t = <<>> THEN FALSE
    ELSE IF s = <<>> THEN TRUE
    ELSE IF Head(s) # Head(t) THEN ord(Head(s)) < ord(Head(t))
    ELSE str_lt(Tail(s), Tail(t))

\* fnmatch.fnmatch(name, pat) on POSIX, for patterns of literals, "*" and "?"
RECURSIVE fnmatch(_, _)
fnmatch(name, pat) ==
    IF pat = <<>> THEN name = <<>>
    ELSE IF Head(pat) = "*"
    THEN fnmatch(name, Tail(pat)) \/ (name # <<>> /\ fnmatch(Tail(name), pat))
    ELSE /\ name # <<>>
         /\ Head(pat) = "?" \/ Head(pat) = Head(name)
         /\ fnmatch(Tail(name), Tail(pat))

\* the names of Path.iterdir()
iterdir(d, p) ==
    { n[Len(n)] : n \in { x \in DOMAIN d : Len(x) = Len(p) + 1 /\ parent(x) = p
                                            /\ d[x].kind # "none" } }

\* sorted(names, key=lambda p: p.name)
RECURSIVE sorted_by_name(_)
sorted_by_name(S) ==
    IF S = {} THEN <<>>
    ELSE LET first == CHOOSE x \in S : \A y \in S \ {x} : str_lt(chars(x), chars(y))
         IN  <<first>> \o sorted_by_name(S \ {first})

\* max_items=None
NoLimit == <<>>

\* line 292: the info of one entry
entry_info(d, p, name) ==
    IF is_file(d, Append(p, name))
    THEN [name |-> name, is_dir |-> FALSE, size |-> Len(d[Append(p, name)].data)]
    ELSE [name |-> name, is_dir |-> is_dir(d, Append(p, name))]

\* a test of line 295 that lets one entry more through
has_room_inclusive(entries, max_items) ==
    max_items = NoLimit \/ Len(entries) <= max_items[1]

\* line 295: max_items is None or len(entries) < max_items
has_room(entries, max_items) == max_items = NoLimit \/ Len(entries) < max_items[1]

\* lines 287-296: the loop over the sorted entries; [entries, total_visible]
RECURSIVE list_loop(_, _, _, _, _, _, _)
list_loop(d, p, names, patterns, max_items, entries, total_visible) ==
    IF names = <<>> THEN [entries |-> entries, total_visible |-> total_visible]
    ELSE IF \E i \in 1..Len(patterns) : fnmatch(chars(Head(names)), chars(patterns[i]))
    THEN list_loop(d, p, Tail(names), patterns, max_items, entries, total_visible)
    ELSE list_loop(d, p, Tail(names), patterns, max_items,
                   IF has_room(entries, max_items)
                   THEN Append(entries, entry_info(d, p, Head(names))) ELSE entries,
                   total_visible + 1)

\* lines 298-307: the marker entry
truncation_marker(max_items, total_visible) ==
    [name |-> <<"[WARNING] truncated: showing first", max_items, "of", total_visible, "items">>,
     is_dir |-> FALSE, truncated |-> TRUE, total |-> total_visible, shown |-> max_items]

\* lines 298-308
listed(l, max_items) ==
    [raised |-> FALSE, err |-> "",
     entries |-> IF max_items # NoLimit /\ l.total_visible > max_items[1]
                 THEN Append(l.entries, truncation_marker(max_items[1], l.total_visible))
                 ELSE l.entries]

ListRaise(err) == [raised |-> TRUE, err |-> err, entries |-> <<>>]

\* str.lower() of the format strings
lower(format) == IF format = "Flat" THEN "flat" ELSE format

\* server.py _list_directory with a list of ignore patterns
_list_directory(d, rs, base, req, format, patterns, max_items) ==
    LET v == validate_path(req, rs, base)
    IN  IF ~v.ok THEN ListRaise(v.err)
        ELSE IF ~exists(d, v.path) THEN ListRaise("NotFound")
        ELSE IF ~is_dir(d, v.path) THEN ListRaise("NotADirectory")
        ELSE IF lower(format) \notin {"tree", "flat"} THEN ListRaise("InvalidArgument")
        ELSE IF max_items # NoLimit /\ max_items[1] <= 0 THEN ListRaise("InvalidArgument")
        ELSE listed(list_loop(d, v.path, sorted_by_name(iterdir(d, v.path)), patterns,
                              max_items, <<>>, 0),
                    max_items)

ListDir == <<"r", "d">>

\* /r/d holding the names of S: "B" is a directory, the others are files
ListTree(S) ==
    [n \in {<<>>, <<"r">>, <<"r", "f">>, <<"o">>, ListDir}
           \cup {Append(ListDir, x) : x \in ListNames} |->
        IF Len(n) = 3
        THEN IF n[3] \notin S THEN NoNode
             ELSE IF n[3] = "B" THEN [kind |-> "dir", data |-> <<>>, mtime |-> 0]
             ELSE [kind |-> "file", data |-> chars(n[3]), mtime |-> 0]
        ELSE IF n = <<"r", "f">> THEN [kind |-> "file", data |-> <<"a", LF>>, mtime |-> 0]
        ELSE [kind |-> "dir", data |-> <<>>, mtime |-> 0]]

ListRequests == {Rel(<<"d">>), Rel(<<"f">>), Rel(<<"m">>), Absolute(<<"o">>)}

ListPatterns == {<<>>, <<"a*">>, <<"??">>, <<"*b", "B">>, <<"b">>}

ListLimits == {NoLimit} \cup {<<m>> : m \in 0..MaxItems}

InitList ==
    /\ roots = << <<"r">> >>
    /\ root = <<"r">>
    /\ \E S \in SUBSET ListNames : fs = ListTree(S)
    /\ clock = 1
    /\ call = NoCall
    /\ ret = NoCall
    /\ cache = EmptyCache

DirOpsList(req, format, patterns, max_items) ==
    /\ call' = [op |-> "list", target |-> req, format |-> format, patterns |-> patterns,
                max_items |-> max_items, fs |-> fs]
    /\ ret' = _list_directory(fs, get_allowed_roots, get_root, req, format, patterns,
                              max_items)
    /\ UNCHANGED <<sandbox, fs, clock, cache>>

NextList ==
    call.op = "none"
    /\ \E req \in ListRequests, format \in {"flat", "Flat", "json"},
          patterns \in ListPatterns, max_items \in ListLimits :
           DirOpsList(req, format, patterns, max_items)

SpecList == InitList /\ [][NextList]_vars

\* the entries of the listed directory that no pattern of the call matches
Visible ==
    { n \in ListNames :
        /\ exists(fs, Append(ListDir, n))
        /\ \A i \in 1..Len(call.patterns) : ~fnmatch(chars(n), chars(call.patterns[i])) }

\* the visible entries that come before n in name order
Before(n) == { x \in Visible : str_lt(chars(x), chars(n)) }

\* a flat listing of /r/d with a limit m >= 1 has returned
Listed ==
    /\ call.op = "list"
    /\ call.max_items # NoLimit
    /\ ~ret.raised

IsMarker(e) == "truncated" \in DOMAIN e

\* C21: a flat listing with max_items = m >= 1 of a directory with v visible
\* entries returns the v entries and no marker when v <= m, and otherwise the
\* first m entries in name order followed by one marker entry with
\* truncated = true, total = v and shown = m
C21_FlatListingTruncates ==
    Listed =>
        LET m == call.max_items[1]
            v == Cardinality(Visible)
            n == Len(ret.entries)
        IN  IF v <= m
            THEN /\ n = v
                 /\ \A i \in 1..n : ~IsMarker(ret.entries[i])
                 /\ \A i \in 1..n : ret.entries[i].name \in Visible
                                    /\ Cardinality(Before(ret.entries[i].name)) = i - 1
            ELSE /\ n = m + 1
                 /\ \A i \in 1..m : /\ ~IsMarker(ret.entries[i])
                                    /\ ret.entries[i].name \in Visible
                                    /\ Cardinality(Before(ret.entries[i].name)) = i - 1
                 /\ IsMarker(ret.entries[n])
                 /\ ret.entries[n].truncated = TRUE
                 /\ ret.entries[n].total = v
                 /\ ret.entries[n].shown = m

\* a listing cut to two of three visible entries, one entry ignored
C21_Witness ==
    /\ Listed
    /\ call.max_items = <<2>>
    /\ call.patterns = <<"b">>
    /\ Cardinality(Visible) = 3
    /\ Len(ret.entries) = 3
    /\ ret.entries[1].name = "B"

----------------------------------------------------------------------------
(* Two set_root_path calls and validate_path calls dispatched concurrently. *)
(* Here call holds the calls in flight: for each of the two threads its    *)
(* position in set_root_path, its candidate and its local list pruned.     *)

Threads == {1, 2}

Idle == [pc |-> "idle", candidate |-> <<>>, pruned |-> <<>>]

InitRoots ==
    /\ fs = Tree
    /\ clock = 0
    /\ roots \in RootConfigs
    /\ root \in (IF roots = <<>> THEN {<<"r">>} ELSE Range(roots))
    /\ call = [op |-> "set_root", thread |-> [t \in Threads |-> Idle]]
    /\ ret = NoCall
    /\ cache = EmptyCache

\* lines 42-45: an allowed directory is the candidate or covers it
covered(candidate, rs) ==
    \E i \in 1..Len(rs) : candidate = rs[i] \/ _is_relative_to(candidate, rs[i])

\* lines 33-37: the candidate resolved and checked
SetRootEnter(t, req) ==
    LET candidate == resolve(req.parts)
    IN  /\ call.thread[t].pc = "idle"
        /\ call' = [call EXCEPT !.thread[t] =
                      [pc |-> IF is_dir(fs, candidate) THEN "read" ELSE "raised",
                       candidate |-> candidate, pruned |-> <<>>]]
        /\ UNCHANGED <<sandbox, fs, clock, ret, cache>>

\* lines 39-49: get_allowed_roots() and the list built from what it returned;
\* a covered candidate goes on to line 44
SetRootRead(t) ==
    /\ call.thread[t].pc = "read"
    /\ call' = [call EXCEPT !.thread[t].pc =
                              IF covered(call.thread[t].candidate, get_allowed_roots)
                              THEN "env" ELSE "save",
                            !.thread[t].pruned =
                              set_root_roots(call.thread[t].candidate, get_allowed_roots)]
    /\ UNCHANGED <<sandbox, fs, clock, ret, cache>>

\* line 50: save_allowed_roots(pruned)
SetRootSave(t) ==
    /\ call.thread[t].pc = "save"
    /\ roots' = call.thread[t].pruned
    /\ call' = [call EXCEPT !.thread[t].pc = "env"]
    /\ UNCHANGED <<root, fs, clock, ret, cache>>

\* lines 44 and 52: os.environ["CODE_EDIT_ROOT"] = str(candidate), and the return
SetRootEnv(t) ==
    /\ call.thread[t].pc = "env"
    /\ root' = call.thread[t].candidate
    /\ call' = [call EXCEPT !.thread[t].pc = "done"]
    /\ UNCHANGED <<roots, fs, clock, ret, cache>>

\* a validate_path of another request while the calls are in flight
ValidateMeanwhile(req) ==
    /\ \E t \in Threads : call.thread[t].pc \notin {"idle", "done", "raised"}
    /\ ret' = [op |-> "validate", req |-> req, roots |-> get_allowed_roots,
               out |-> validate_path(req, get_allowed_roots, get_root)]
    /\ UNCHANGED <<sandbox, fs, clock, call, cache>>

NextRoots ==
    \/ \E t \in Threads, req \in RootRequests : SetRootEnter(t, req)
    \/ \E t \in Threads : SetRootRead(t)
    \/ \E t \in Threads : SetRootSave(t)
    \/ \E t \in Threads : SetRootEnv(t)
    \/ \E req \in {Rel(<<"f">>), Absolute(<<"o", "f">>)} : ValidateMeanwhile(req)

SpecRoots == InitRoots /\ [][NextRoots]_vars

\* neither directory is the other or inside the other
Unrelated(a, b) == ~_is_relative_to(a, b) /\ ~_is_relative_to(b, a)

\* both calls have returned, and their directories are unrelated
BothReturned ==
    /\ \A t \in Threads : call.thread[t].pc = "done"
    /\ Unrelated(call.thread[1].candidate, call.thread[2].candidate)

\* C22: after two concurrent set_root calls on two unrelated existing
\* directories a and b have returned, in any interleaving, both a and b are in
\* the persisted AllowedRoots (or covered by the unrestricted list)
C22_BothRootsPersist ==
    BothReturned =>
        \A t \in Threads :
            \/ call.thread[t].candidate \in Range(roots)
            \/ covered(call.thread[t].candidate, roots)

----------------------------------------------------------------------------
(* The MetadataCache under lookups, modifications by other processes and   *)
(* one writing call: file_ops write/append or edit_block.                  *)

InitCache ==
    /\ roots = << <<"r">> >>
    /\ root = <<"r">>
    /\ \E c \in { <<"x">>, <<"x", NUL>> } :
          fs = [Tree EXCEPT ![FilePath].data = c, ![GPath].data = <<"x">>]
    /\ clock = 1
    /\ call = NoCall
    /\ ret = NoCall
    /\ cache = EmptyCache

\* file_ops("write" or "append")
CachedWrite(action, req, content) ==
    LET out == file_ops(fs, get_allowed_roots, get_root, action,
                        [file_path |-> req, content |-> content, expected_mtime |-> NoMtime],
                        clock)
    IN  /\ call' = [op |-> action, target |-> req, fs |-> fs, cache |-> cache]
        /\ ret' = [ok |-> out.ok, err |-> out.err]
        /\ fs' = out.fs
        /\ UNCHANGED <<sandbox, clock, cache>>

\* edit_block
CachedEdit(req, search) ==
    LET out == edit_block(cache, fs, get_allowed_roots, get_root, req, search, <<"y">>, 1,
                          NoMtime, FALSE, FALSE, clock)
    IN  /\ call' = [op |-> "edit_block", target |-> req, fs |-> fs, cache |-> cache]
        /\ ret' = out.result
        /\ fs' = out.fs
        /\ cache' = out.cache
        /\ UNCHANGED <<sandbox, clock>>

NextCache ==
    \/ Tick
    \/ Touch(FilePath)
    \/ \E p \in {FilePath, GPath} : GetOrCompute(p)
    \/ call.op = "none"
       /\ \E action \in {"write", "append"}, req \in {TheFile, Rel(<<"m">>)},
             content \in { <<"y">>, <<>> } :
              CachedWrite(action, req, content)
    \/ call.op = "none"
       /\ \E req \in {TheFile, Rel(<<"g">>)}, search \in { <<"x">>, <<"z">> } :
              CachedEdit(req, search)

SpecCache == InitCache /\ [][NextCache]_vars

\* the calls that write files
WriteOps == {"write", "append", "edit_block", "edit_blocks"}

\* the call has written the file p
Wrote(p) == call.op \in WriteOps /\ fs[p] # call.fs[p]

\* the entry the cache had for p before the call is still cached
KeepsEntry(p) ==
    /\ str_path(p) \in DOMAIN call.cache
    /\ str_path(p) \in DOMAIN cache
    /\ cache[str_path(p)] = call.cache[str_path(p)]

\* C23: after a write operation (write, append, edit_block, a flush of
\* edit_blocks, a restore write of a rollback) has written a file, no entry
\* captured before the write remains cached under the file's cache key
C23_WritesInvalidate == \A p \in {FilePath, GPath} : Wrote(p) => ~KeepsEntry(p)

\* what of C23 the handlers of server.py do: a successful edit_block and a
\* batch that ends without a rollback leave no earlier entry of a file they wrote
C23_EditsInvalidate ==
    \A p \in {FilePath, GPath} :
        /\ Wrote(p)
        /\ \/ call.op = "edit_block"
           \/ call.op = "edit_blocks" /\ call.policy # "rollback"
        => ~KeepsEntry(p)

C23_EditsWitness ==
    /\ call.op = "edit_blocks"
    /\ call.policy = "continue"
    /\ Wrote(FilePath)
    /\ str_path(FilePath) \in DOMAIN call.cache
    /\ str_path(FilePath) \notin DOMAIN cache

\* a lookup has returned
LookedUp == call.op = "none" /\ ret.op = "get_or_compute"

\* the lookup found an entry captured at the mtime it saw
Hit == ret.key \in DOMAIN ret.before /\ ret.before[ret.key].mtime = ret.seen

\* C24: get_or_compute returns the cached entry only when the entry's captured
\* mtime equals the file's current mtime, and otherwise recomputes and stores;
\* every entry returned has a captured mtime equal to the mtime observed
C24_LookupValidatesMtime ==
    LookedUp =>
        /\ ret.entry.mtime = ret.seen
        /\ ret.after[ret.key] = ret.entry
        /\ IF Hit THEN ret.entry = ret.before[ret.key] /\ ret.after = ret.before
           ELSE ret.entry = ret.fresh

\* a lookup after another process has rewritten the file: the entry of the
\* earlier lookup is there, with another mtime, and a fresh one is returned
C24_Witness ==
    /\ LookedUp
    /\ ret.key = str_path(FilePath)
    /\ ret.key \in DOMAIN ret.before
    /\ ret.before[ret.key].mtime # ret.seen
    /\ ret.entry.size # ret.before[ret.key].size

----------------------------------------------------------------------------
(* read_file with a negative offset: the two strategies of                 *)
(* _read_file_with_smart_positioning for the last lines of a file.  The    *)
(* thresholds of tools/config.py are scaled down to the files of the       *)
(* model: a file of more than LargeFileBytes bytes counts as large, a read *)
(* of at most SmallRead lines as small, a chunk is ChunkSize bytes.        *)

LargeFileBytes == 2

SmallRead == 2

ChunkSize == 2

MaxTail == 4

MaxTailLines == 3

\* text.split("\n"): the pieces between the separators, at least one piece
RECURSIVE split_newline(_)
split_newline(text) ==
    IF \A i \in 1..Len(text) : text[i] # LF THEN <<text>>
    ELSE LET i == Min({k \in 1..Len(text) : text[k] = LF})
         IN  <<SubSeq(text, 1, i - 1)>> \o split_newline(SubSeq(text, i + 1, Len(text)))

\* lines[-n:]
last_n(lines, n) == SubSeq(lines, Max({1, Len(lines) - n + 1}), Len(lines))

\* what the two strategies return: the number of lines in the status message
\* and the text after it
TailResult(result_lines) ==
    [read |-> Len(result_lines), content |-> join_newline(result_lines)]

\* lines 157-165: the loop over the chunks, from the end of the file
RECURSIVE reverse_chunks(_, _, _, _, _)
reverse_chunks(data, n, position, lines, partial) ==
    IF position > 0 /\ Len(lines) < n
    THEN LET read_size == Min({ChunkSize, position})
             text == SubSeq(data, position - read_size + 1, position) \o partial
         IN  reverse_chunks(data, n, position - read_size,
                            Tail(split_newline(text)) \o lines, Head(split_newline(text)))
    ELSE [position |-> position, lines |-> lines, partial |-> partial]

\* lines 167-170: the first line of the file is put in front when the loop
\* reached the start of the file, then lines[-n:]
reverse_result(l, n) ==
    TailResult(last_n(IF l.position = 0 /\ l.partial # <<>>
                      THEN <<l.partial>> \o l.lines ELSE l.lines, n))

\* tools/filesystem.py _read_last_n_lines_reverse: the file is read in binary
\* mode, its bytes as they are
_read_last_n_lines_reverse(data, n) ==
    reverse_result(reverse_chunks(data, n, Len(data), <<>>, <<>>), n)

\* the lines a text-mode file gives when iterated, each without its "\n"
text_lines(data) ==
    [i \in 1..Len(splitlines(read_text(data))) |->
        rstrip_newline(splitlines(read_text(data))[i])]

\* tools/filesystem.py _read_from_end_with_readline: deque(maxlen=n) over the
\* lines of the file opened in text mode
_read_from_end_with_readline(data, n) == TailResult(last_n(text_lines(data), n))

\* tools/filesystem.py _read_file_with_smart_positioning, lines 249-253:
\* offset < 0
read_last_lines(data, offset) ==
    IF Len(data) > LargeFileBytes /\ -offset <= SmallRead
    THEN _read_last_n_lines_reverse(data, -offset)
    ELSE _read_from_end_with_readline(data, -offset)

InitTail ==
    /\ roots = << <<"r">> >>
    /\ root = <<"r">>
    /\ \E c \in SeqsUpTo(FileChars, MaxTail) : fs = [Tree EXCEPT ![FilePath].data = c]
    /\ clock = 1
    /\ call = NoCall
    /\ ret = NoCall
    /\ cache = EmptyCache

\* read_file(path, offset, length) with offset < 0
ReadLastLines(offset, length) ==
    /\ call.op = "none"
    /\ call' = [op |-> "read", offset |-> offset, length |-> length]
    /\ ret' = read_last_lines(fs[FilePath].data, offset)
    /\ UNCHANGED <<sandbox, fs, clock, cache>>

NextTail ==
    \E n \in 1..MaxTailLines, length \in {0, 1, FILE_READ_LINE_LIMIT} :
        ReadLastLines(-n, length)

SpecTail == InitTail /\ [][NextTail]_vars

\* the lines of a file: its "\n"-terminated segments without the "\n", and a
\* non-empty rest after the last "\n"
FileLines(data) ==
    IF data # <<>> /\ data[Len(data)] = LF
    THEN SubSeq(split_newline(data), 1, Len(split_newline(data)) - 1)
    ELSE IF data = <<>> THEN <<>> ELSE split_newline(data)

\* C25: a read with offset = -n returns the last min(n, total lines) lines of
\* the file whatever length is, and the backward chunked strategy returns the
\* same lines as the forward ring-buffer strategy on the same file
C25_TailStrategiesAgree ==
    call.op = "read" =>
        LET data == fs[FilePath].data
            n == -call.offset
        IN  /\ _read_last_n_lines_reverse(data, n) = _read_from_end_with_readline(data, n)
            /\ ret.read = Min({n, Len(FileLines(data))})
            /\ ret.content = join_newline(last_n(FileLines(data), n))

\* C25 for the forward strategy alone, on files without "\r"
C25_ForwardReadsLastLines ==
    (call.op = "read" /\ \A i \in 1..Len(fs[FilePath].data) : fs[FilePath].data[i] # CR) =>
        LET data == fs[FilePath].data
            n == -call.offset
        IN  _read_from_end_with_readline(data, n) = TailResult(last_n(FileLines(data), n))

\* the two strategies differ on a file that ends with a newline
C25_TrailingNewline ==
    /\ call.op = "read"
    /\ call.offset = -1
    /\ fs[FilePath].data = <<"a", LF, "a", LF>>
    /\ ret.read = 1
    /\ ret.content = <<>>
    /\ _read_from_end_with_readline(fs[FilePath].data, 1).content = <<"a">>

----------------------------------------------------------------------------
(* edit_blocks on one file with the optional fields of an edit: the          *)
(* whitespace-insensitive strategy in memory, replacements with backslashes *)

MaxWsBatch == 2

WsContents ==
    { <<"a", SP, "a">>, <<"a", LF, "a">>, <<"a", LF, LF, "a">>, <<"a", SP, SP, "a">>,
      <<"a", CR, LF, "a">> }

WsSearches == { <<"a", SP, "a">>, <<"a", LF, "a">> }

WsReplacements == { <<"b">>, <<BS, "n">>, <<BS, "1">> }

WsEdits ==
    { [file_path |-> TheFile, old_string |-> o, new_string |-> n, ignore_whitespace |-> iw] :
        o \in WsSearches, n \in WsReplacements, iw \in BOOLEAN }

InitWs ==
    /\ roots = << <<"r">> >>
    /\ root = <<"r">>
    /\ \E c \in WsContents : fs = [Tree EXCEPT ![FilePath].data = c]
    /\ clock = 1
    /\ call = NoCall
    /\ ret = NoCall
    /\ cache = EmptyCache

NextWs ==
    \E edits \in SeqsUpTo(WsEdits, MaxWsBatch) \ {<<>>}, policy \in Policies :
        EditBlocks(edits, policy)

SpecWs == InitWs /\ [][NextWs]_vars

\* the first edit of the batch and the buffer it is matched against: the text
\* read from the file
FirstEdit == call.edits[1]

FirstNeedle == NeedleOf(FirstEdit.old_string)

FirstMatches ==
    finditer(ReadBefore, _build_whitespace_insensitive_pattern(FirstNeedle), 0)

\* the whitespace-insensitive strategy is the one that decides the first edit:
\* no literal occurrence, as many flexible matches as expected
FirstUsesWhitespace ==
    /\ FirstEdit.ignore_whitespace
    /\ str_count(ReadBefore, FirstNeedle) = 0
    /\ Len(FirstMatches) = 1

Literal(text) == \A i \in 1..Len(text) : text[i] # BS

FirstResult == ret.results[1]

\* C26: an edit of edit_blocks decided by the whitespace-insensitive strategy
\* with a match that spans more than 1.5 times the lines of the search text
\* fails with OverlyGreedyMatch, and a batch of that one edit leaves the file
\* as it was.
C26_GreedyMatchRejected ==
    (/\ call.op = "edit_blocks"
     /\ FirstUsesWhitespace
     /\ Literal(FirstEdit.new_string)
     /\ too_greedy(ReadBefore, FirstMatches, FirstNeedle)) =>
        /\ ~ret.raised
        /\ FirstResult.idx = 1
        /\ FirstResult.status = "error"
        /\ FirstResult.error = "OverlyGreedyMatch"
        /\ (Len(call.edits) = 1 => fs = call.fs)

\* the same case in edit_block: refused, the file as it was
C26_EditBlockGuards ==
    (/\ call.op = "edit_block"
     /\ call.iw
     /\ ExactCount = 0
     /\ WhitespaceCount = call.expected
     /\ too_greedy(ReadBefore,
                   finditer(ReadBefore,
                            _build_whitespace_insensitive_pattern(NeedleOf(call.search)), 0),
                   NeedleOf(call.search))) =>
        /\ ~ret.ok
        /\ ret.err = "OverlyGreedyMatch"
        /\ fs = call.fs

C26_EditBlockWitness ==
    /\ call.op = "edit_block"
    /\ call.iw /\ ExactCount = 0 /\ WhitespaceCount = 1 /\ call.expected = 1
    /\ ret.err = "OverlyGreedyMatch"

\* the spans the first edit replaces: the first literal occurrence, or else
\* the flexible matches
FirstSpans ==
    IF str_count(ReadBefore, FirstNeedle) > 0
    THEN << <<str_find(ReadBefore, FirstNeedle, 0),
              str_find(ReadBefore, FirstNeedle, 0) + Len(FirstNeedle)>> >>
    ELSE FirstMatches

\* C27: after a successful edit the content is the old content with every
\* matched span replaced by the replacement text as it was given, in the
\* file's line endings, under the exact and the whitespace-insensitive
\* strategy alike; nothing in the replacement is interpreted.
C27_ReplacementLiteral ==
    (/\ call.op = "edit_blocks"
     /\ Len(call.edits) = 1
     /\ ~ret.raised
     /\ FirstResult.status = "success") =>
        read_text(fs[FilePath].data)
            = subn(ReadBefore, FirstSpans, NeedleOf(FirstEdit.new_string), 1, 0)

\* the same with the whitespace-insensitive strategy left out: the exact
\* strategy takes the replacement as it is
C27_ExactLiteral ==
    (/\ call.op = "edit_blocks"
     /\ Len(call.edits) = 1
     /\ ~ret.raised
     /\ FirstResult.status = "success"
     /\ str_count(ReadBefore, FirstNeedle) > 0) =>
        read_text(fs[FilePath].data)
            = subn(ReadBefore, FirstSpans, NeedleOf(FirstEdit.new_string), 1, 0)

\* a replacement with a backslash put in by the exact strategy
C27_ExactWitness ==
    /\ call.op = "edit_blocks"
    /\ Len(call.edits) = 1
    /\ FirstResult.status = "success"
    /\ str_count(ReadBefore, FirstNeedle) > 0
    /\ fs[FilePath].data = <<BS, "n">>

----------------------------------------------------------------------------
(* The counts of a BatchResult *)

EntriesWith(status) == {n \in 1..Len(ret.results) : ret.results[n].status = status}

Returned == call.op = "edit_blocks" /\ ~ret.raised

CountsAgree ==
    /\ ret.total_edits = Len(call.edits)
    /\ ret.successful_edits = Cardinality(EntriesWith("success"))
    /\ ret.failed_edits = Cardinality(EntriesWith("error"))
    /\ ret.successful_edits + ret.failed_edits <= ret.total_edits
    /\ (ret.status = "success")
           <=> ({ret.results[n].idx : n \in EntriesWith("success")} = 1..Len(call.edits))

\* C28: in every BatchResult, under any policy, total is the number of edits
\* submitted, the successful and failed counts are the numbers of success and
\* error entries, their sum is at most total, and the status is success
\* exactly when every submitted edit has a success entry.
C28_CountsMatchEntries == Returned => CountsAgree

\* the same for every result that is not the error result of a rollback
C28_CountsOutsideRollback == (Returned /\ ret.status # "error") => CountsAgree

\* a partial result: one edit applied, one failed, both counted
C28_PartialWitness ==
    /\ Returned
    /\ ret.status = "partial"
    /\ ret.successful_edits = 1 /\ ret.failed_edits = 1 /\ ret.total_edits = 3

----------------------------------------------------------------------------
(* Line endings across an edit *)

LineEndingStyles == { <<LF>>, <<CR, LF>>, <<CR>> }

HasLineEnding(data) == \E i \in 1..Len(data) : data[i] \in {CR, LF}

\* every line ending of data is of the one style
UsesOnly(data, style) ==
    IF style = <<LF>> THEN \A i \in 1..Len(data) : data[i] # CR
    ELSE IF style = <<CR>> THEN \A i \in 1..Len(data) : data[i] # LF
    ELSE \A i \in 1..Len(data) :
             /\ (data[i] = CR => (i < Len(data) /\ data[i + 1] = LF))
             /\ (data[i] = LF => (i > 1 /\ data[i - 1] = CR))

\* C29: a successful edit keeps the line-ending style of the file: a content
\* whose line endings are all LF, all CRLF or all CR has, after the edit, line
\* endings of that style only, whatever line endings search and replacement
\* were written with.
C29_LineEndingsPreserved ==
    (Returned /\ ret.status = "success") =>
        \A F \in BatchFiles, style \in LineEndingStyles :
            (HasLineEnding(call.fs[F].data) /\ UsesOnly(call.fs[F].data, style))
                => UsesOnly(fs[F].data, style)

\* a CRLF file edited with success
C29_CrlfEdited ==
    /\ Returned /\ ret.status = "success"
    /\ call.fs[FilePath].data = <<"x", CR, LF>>
    /\ fs[FilePath].data # call.fs[FilePath].data

----------------------------------------------------------------------------
(* One file named by two path strings in a batch *)

\* the buffer of the file F after the edits 1..n that name it by any path
\* string, in submission order, from the text read from disk d
RECURSIVE ResolvedBuffer(_, _, _, _)
ResolvedBuffer(d, edits, n, F) ==
    IF n = 0 THEN read_text(d[F].data)
    ELSE LET prev == ResolvedBuffer(d, edits, n - 1, F)
         IN  IF FileOf(edits[n]) = F THEN Apply(prev, edits[n]) ELSE prev

\* every edit names a file and applies to the buffer of that file as the
\* edits before it left it
AllApply(d, edits) ==
    \A i \in 1..Len(edits) :
        /\ FileOf(edits[i]) \in BatchFiles
        /\ Applies(ResolvedBuffer(d, edits, i - 1, FileOf(edits[i])), edits[i])

Aliased == call.op = "edit_blocks" /\ ~NoAlias(call.edits)

\* C30: edit_blocks identifies a file by its resolved path. When two edits
\* name one file through different path strings, the edits run in submission
\* order against one buffer of that file, so a batch whose edits all apply in
\* that order succeeds and leaves each file with its buffer; and under
\* rollback a failure leaves every file with the text it had before the call.
C30_AliasesShareBuffer ==
    Aliased =>
        /\ AllApply(call.fs, call.edits) =>
               /\ ~ret.raised
               /\ ret.status = "success"
               /\ \A F \in BatchFiles :
                      read_text(fs[F].data)
                          = ResolvedBuffer(call.fs, call.edits, Len(call.edits), F)
        /\ (call.policy = "rollback" /\ (ret.raised \/ ret.status # "success")) =>
               \A F \in BatchFiles : read_text(fs[F].data) = read_text(call.fs[F].data)

====
